---------------------------- MODULE Spec2Model ----------------------------
(***************************************************************************)
(* Model of the USB-PD PDO/RDO codec of lsucpd (src/src/lsucpd.cpp):       *)
(* the descriptor table pdo_part_a, the decoders pdo2str and rdo2str, the  *)
(* option handlers do_pdo_opt and do_rdo_opt that call them, and the       *)
(* encoder build_raw_pdo with its sscanf based attribute readers.          *)
(*                                                                         *)
(* A 32-bit word (uint32_t) is the set of the positions of its 1 bits, a    *)
(* subset of 0..31: the model checker's integers are narrower than 32      *)
(* bits.  Field values, the 16-bit and 8-bit locals of the decoders and    *)
(* the numbers read from attribute files are naturals with their width    *)
(* kept.  Text is a sequence of one-character strings.                     *)
(***************************************************************************)
EXTENDS Integers, Sequences, FiniteSets, TLC

VARIABLES
    pc,         \* position: "start", "do_pdo_opt", "pdo2str", "do_rdo_opt",
                \* "rdo2str", "built", "ret"
    op,         \* the options: pdo_opt_p, rdo_opt_p (texts), is_pdo_snk
    a_pdo,      \* pdo2str: the word being decoded
    ind1,       \* pdo2str: object index is 1
    is_src,     \* pdo2str: decoding a source capability
    a_rdo,      \* rdo2str: the word being decoded
    ref_pdo,    \* rdo2str: pdo_e of the PDO the RDO refers to
    k,          \* loop counter of the scan (uint8_t)
    do_fld_p,   \* cursor into pdo_part_a (index of the pointed-to row)
    fl_cont,    \* the scan's continue flag
    out,        \* the output string: [head |-> pieces, lines |-> fields]
    stdout,     \* the strings main has printed, in order
    res,        \* status returned by do_pdo_opt / do_rdo_opt
    elem,       \* the pdo_elem the encoder works on
    ec,         \* build_raw_pdo: map_d_regu_files reported an error
    calls       \* the arguments and locals of two decode calls made side
                \* by side, each with its own output string

vars == <<pc, op, a_pdo, ind1, is_src, a_rdo, ref_pdo, k, do_fld_p, fl_cont,
          out, stdout, res, elem, ec, calls>>

-----------------------------------------------------------------------------
(* Bounds of the model *)

\* low 24 bits of a literal word are drawn from patterns 0..MaxPat
MaxPat == 2
\* IND of --pdo-src=PDO,IND and pdo_ind_ of a sysfs PDO range over 0..MaxInd
MaxInd == 2
\* the voltage attribute sweeps 0, 50, ..., 50 * MaxVoltStep millivolts
MaxVoltStep == 1030

-----------------------------------------------------------------------------
(* Machine arithmetic *)

U16 == 2 ^ 16
U8 == 2 ^ 8

RECURSIVE Field(_, _, _)
\* (w >> low) & ((1 << nb) - 1) of a word w, as a number
Field(w, low, nb) ==
    IF nb = 0 THEN 0
    ELSE (IF low \in w THEN 1 ELSE 0) + 2 * Field(w, low + 1, nb - 1)

\* the word x << n of a number x below 2^31, truncated to 32 bits
Shl(x, n) ==
    {n + i : i \in {j \in 0 .. 30 : j + n <= 31 /\ (x \div (2 ^ j)) % 2 = 1}}

\* the word a | b
BitOr(a, b) == a \cup b

\* (f & x) != 0 for a number x and a single-bit mask f
Tst(x, f) == (x \div f) % 2 = 1

-----------------------------------------------------------------------------
(* The descriptor table *)

P_IT_FL_START == 16
P_IT_FL_SINK == 32
P_IT_FL_SRC == 64
P_IT_FL_CONT == 128

\* pdo_str[] as a tuple: the C index i is position i + 1
pdo_str ==
        << "dual_role_power", "usb_suspend_supported", "unconstrained_power",
           "usb_communication_capable", "unchunked_message_supported",
           "epr_mode_supported", "higher_capability", "fast_role_swap",
           "peak_current", "voltage", "maximum_current",
           "operational_current", "maximum_voltage", "minimum_voltage",
           "pps_power_limited", "dual_role_data", "maximum_power",
           "operational_power", "pd_power",
           "object_position", "giveback_flag", "capability_mismatch",
           "no_usb_suspend", "operating_current",
           "maximum_operating_current", "minimum_operating_current",
           "operating_power", "maximum_operating_power",
           "minimum_operating_power", "output_voltage" >>

\* pdo_str[i]
pdo_str_at(i) == pdo_str[i + 1]

\* one do_fld_desc_t
Fld(low, nbt, mult, nam) ==
    [low_pdo_bit |-> low, num_bits_typ |-> nbt, mult |-> mult,
     nam_str_off |-> nam]

\* pdo_part_a[] as a tuple: the C index i is position i + 1
pdo_part_a ==
        << \* index=0: Fixed PDOs at object position 1
           Fld(29, 1 + P_IT_FL_START, 0, 0),
           Fld(28, 1 + P_IT_FL_SINK, 0, 6),
           Fld(28, 1 + P_IT_FL_SRC, 0, 1),
           Fld(27, 1, 0, 2),
           Fld(26, 1, 0, 3),
           Fld(25, 1, 0, 15),
           Fld(24, 1 + P_IT_FL_SRC, 0, 4),
           Fld(23, 1 + P_IT_FL_SRC, 0, 5),
           Fld(23, 2 + P_IT_FL_SINK + P_IT_FL_CONT, 0, 7),
           \* index=9: all Fixed PDOs
           Fld(20, 2 + P_IT_FL_START + P_IT_FL_SRC, 0, 8),
           Fld(10, 10, 5, 9),
           Fld(0, 10 + P_IT_FL_SRC, 1, 10),
           Fld(0, 10 + P_IT_FL_SINK, 1, 11),
           \* index=13: Battery PDOs
           Fld(20, 10 + P_IT_FL_START, 5, 12),
           Fld(10, 10, 5, 13),
           Fld(0, 10 + P_IT_FL_SRC, 25, 16),
           Fld(0, 10 + P_IT_FL_SINK, 25, 17),
           \* index=17: Variable PDOs
           Fld(20, 10 + P_IT_FL_START, 5, 12),
           Fld(10, 10, 5, 13),
           Fld(0, 10 + P_IT_FL_SRC, 1, 10),
           Fld(0, 10 + P_IT_FL_SINK, 1, 11),
           \* index=21: PPS PDOs
           Fld(27, 1 + P_IT_FL_START + P_IT_FL_SRC, 0, 14),
           Fld(17, 8, 10, 12),
           Fld(8, 8, 10, 13),
           Fld(0, 7 + P_IT_FL_SRC, 5, 10),
           Fld(0, 7 + P_IT_FL_SINK, 5, 11),
           \* index=26: AVS PDOs
           Fld(26, 2 + P_IT_FL_START + P_IT_FL_SRC, 0, 8),
           Fld(17, 9, 10, 12),
           Fld(8, 8, 10, 13),
           Fld(0, 8, 100, 18),
           \* index=30: Fixed and Variable RDOs
           Fld(28, 4 + P_IT_FL_START, 0, 19),
           Fld(27, 1, 0, 20),
           Fld(26, 1, 0, 21),
           Fld(25, 1, 0, 3),
           Fld(24, 1, 0, 22),
           Fld(23, 1, 0, 4),
           Fld(22, 1, 0, 5),
           Fld(10, 10, 1, 23),
           Fld(0, 10 + P_IT_FL_SINK, 1, 24),
           Fld(0, 10 + P_IT_FL_SRC, 1, 25),
           \* index=40: Battery RDOs
           Fld(28, 4 + P_IT_FL_START, 0, 19),
           Fld(27, 1, 0, 20),
           Fld(26, 1, 0, 21),
           Fld(25, 1, 0, 3),
           Fld(24, 1, 0, 22),
           Fld(23, 1, 0, 4),
           Fld(22, 1, 0, 5),
           Fld(10, 10, 25, 26),
           Fld(0, 10 + P_IT_FL_SINK, 25, 27),
           Fld(0, 10 + P_IT_FL_SRC, 25, 28),
           \* index=50: PPS RDOs
           Fld(28, 4 + P_IT_FL_START, 0, 19),
           Fld(26, 1, 0, 21),
           Fld(25, 1, 0, 3),
           Fld(24, 1, 0, 22),
           Fld(23, 1, 0, 4),
           Fld(22, 1, 0, 5),
           Fld(9, 11, 2, 29),
           Fld(0, 7, 5, 23),
           \* index=58: AVS RDOs
           Fld(28, 4 + P_IT_FL_START, 0, 19),
           Fld(26, 1, 0, 21),
           Fld(25, 1, 0, 3),
           Fld(24, 1, 0, 22),
           Fld(23, 1, 0, 4),
           Fld(22, 1, 0, 5),
           Fld(9, 11, 255, 29),
           Fld(0, 7, 5, 23),
           \* index=66: sentinel
           Fld(0, 0, 0, 0) >>

\* pdo_part_a[i], the row a cursor at index i points to
pdo_part_at(i) == pdo_part_a[i + 1]

\* pdo_part_map with the Battery entry for object index 1 on the Fixed block
pdo_part_map_batt1 == <<9, 0, 13, 0, 17, 17, 21, 26>>

\* pdo_part_map with the Battery and Variable entries exchanged
pdo_part_map_swapped == <<9, 0, 17, 17, 13, 13, 21, 26>>

\* pdo_part_map[] as a tuple: the C index i is position i + 1
pdo_part_map == <<9, 0, 13, 13, 17, 17, 21, 26>>

pdo_part_map_at(i) == pdo_part_map[i + 1]

\* rdo_part_map with the PPS entry on the Fixed and Variable block
rdo_part_map_pps30 == <<30, 40, 30, 58>>

\* rdo_part_map[] as a tuple: the C index i is position i + 1
rdo_part_map == <<30, 40, 50, 58>>

rdo_part_map_at(i) == rdo_part_map[i + 1]

\* enum class pdo_e
pdo_e == {"pdo_null", "pdo_fixed", "pdo_variable", "pdo_battery",
          "apdo_pps", "apdo_spr_avs", "apdo_epr_avs"}

-----------------------------------------------------------------------------
(* Text: std::to_string and the "=%u.%02u\n" format of snprintf *)

DigitChars == <<"0", "1", "2", "3", "4", "5", "6", "7", "8", "9">>

RECURSIVE to_string(_)
\* std::to_string of an unsigned value: its decimal digits
to_string(n) ==
    IF n < 10 THEN <<DigitChars[n + 1]>>
    ELSE to_string(n \div 10) \o <<DigitChars[(n % 10) + 1]>>

\* "%u" in place of "%02u": no zero padding
fmt_02u_nopad(n) == to_string(n)

\* "%02u": at least two digits, zero padded
fmt_02u(n) == IF n < 10 THEN <<"0">> \o to_string(n) ELSE to_string(n)

\* "%u.%02u" applied to (v / 100, v % 100)
fmt_centi(v) == to_string(v \div 100) \o <<".">> \o fmt_02u(v % 100)

-----------------------------------------------------------------------------
(* pdo2str *)

\* pdo2str_map_ind that sets the low bit whatever ind1 is
pdo2str_map_ind_always1(a, i1) ==
    ((Field(a, 30, 2) * 2) % U8) + 1

\* the index into pdo_part_map computed on entry
pdo2str_map_ind(a, i1) ==
    ((Field(a, 30, 2) * 2) % U8) + (IF i1 THEN 1 ELSE 0)

\* the row of pdo_part_a that do_fld_p points to when the scan starts
pdo2str_start(a, i1) ==
    LET sel == Field(a, 30, 2) % U8
    IN  IF sel = 3
        THEN IF 28 \in a THEN pdo_part_map_at(6 + 1) ELSE pdo_part_map_at(6)
        ELSE pdo_part_map_at(pdo2str_map_ind(a, i1))

\* the word the heading starts with
pdo2str_kind(a) ==
    LET sel == Field(a, 30, 2) % U8
    IN  CASE sel = 0 -> "Fixed"
          [] sel = 1 -> "Battery"
          [] sel = 2 -> "Variable"
          [] OTHER -> IF 28 \in a THEN "Adjustable voltage"
                                        ELSE "Programmable power"

\* the heading line, as the pieces that are appended to out
pdo2str_head(a, i1, src) ==
    << pdo2str_kind(a), " supply PDO for ",
       IF src THEN "source" ELSE "sink",
       IF i1 THEN ", object index 1:\n" ELSE ":\n" >>

\* pdo2str_skip with the two roles exchanged
pdo2str_skip_swapped(nbt, src) ==
    \/ Tst(nbt, P_IT_FL_SRC) /\ src
    \/ Tst(nbt, P_IT_FL_SINK) /\ ~src

\* the two "continue" tests on the role flags
pdo2str_skip(nbt, src) ==
    \/ Tst(nbt, P_IT_FL_SRC) /\ ~src
    \/ Tst(nbt, P_IT_FL_SINK) /\ src

\* extract with a mask one bit too wide
extract_wide(w, d) ==
    LET nb == d.num_bits_typ % 16
    IN  Field(w, d.low_pdo_bit, nb + 1)

\* the field of word w that descriptor d describes
extract(w, d) ==
    LET nb == d.num_bits_typ % 16
    IN  Field(w, d.low_pdo_bit, nb)

\* value text of a PDO field: 16-bit product with mult, or the bare number
pdo2str_value(w, d) ==
    LET l_pdo16 == extract(w, d) % U16
    IN  IF d.mult # 0 THEN fmt_centi((l_pdo16 * d.mult) % U16)
        ELSE to_string(l_pdo16)

\* the line appended to out for descriptor d
pdo2str_line(w, d) ==
    [name |-> pdo_str_at(d.nam_str_off), val |-> pdo2str_value(w, d)]

\* scan_break that does not look at the continue flag
scan_break_nocont(p, kk, cont) ==
    LET nbt == pdo_part_at(p).num_bits_typ
    IN  \/ nbt = 0
        \/ kk > 0 /\ Tst(nbt, P_IT_FL_START)

\* scan_break without the test for the sentinel row
scan_break_nosentinel(p, kk, cont) ==
    LET nbt == pdo_part_at(p).num_bits_typ
    IN  ~cont /\ kk > 0 /\ Tst(nbt, P_IT_FL_START)

\* does the scan leave the loop at row p
scan_break(p, kk, cont) ==
    LET nbt == pdo_part_at(p).num_bits_typ
    IN  \/ nbt = 0
        \/ ~cont /\ kk > 0 /\ Tst(nbt, P_IT_FL_START)

\* pdo2str_step with fl_cont assigned after the two role tests, so that a
\* skipped row leaves it as it was
pdo2str_step_contlate(w, src, s) ==
    LET d == pdo_part_at(s.p)
        nbt == d.num_bits_typ
    IN  IF scan_break(s.p, s.k, s.cont)
        THEN [s EXCEPT !.run = FALSE]
        ELSE [k |-> (s.k + 1) % U8,
              p |-> s.p + 1,
              cont |-> IF pdo2str_skip(nbt, src) THEN s.cont
                       ELSE Tst(nbt, P_IT_FL_CONT),
              lines |-> IF pdo2str_skip(nbt, src) THEN s.lines
                        ELSE Append(s.lines, pdo2str_line(w, d)),
              run |-> TRUE]

\* one pass of the for loop of pdo2str over s = [k, p, cont, lines, run]
pdo2str_step(w, src, s) ==
    LET d == pdo_part_at(s.p)
        nbt == d.num_bits_typ
    IN  IF scan_break(s.p, s.k, s.cont)
        THEN [s EXCEPT !.run = FALSE]
        ELSE [k |-> (s.k + 1) % U8,
              p |-> s.p + 1,
              cont |-> Tst(nbt, P_IT_FL_CONT),
              lines |-> IF pdo2str_skip(nbt, src) THEN s.lines
                        ELSE Append(s.lines, pdo2str_line(w, d)),
              run |-> TRUE]

RECURSIVE pdo2str_loop(_, _, _)
\* the whole loop: the final scan state
pdo2str_loop(w, src, s) ==
    IF s.run THEN pdo2str_loop(w, src, pdo2str_step(w, src, s)) ELSE s

\* pdo2str as a function: the value of out on return
pdo2str(w, i1, src) ==
    [head |-> pdo2str_head(w, i1, src),
     lines |-> pdo2str_loop(w, src,
                   [k |-> 0, p |-> pdo2str_start(w, i1), cont |-> FALSE,
                    lines |-> <<>>, run |-> TRUE]).lines]

-----------------------------------------------------------------------------
(* rdo2str *)

pdo_e_to_str(p_e) ==
    CASE p_e = "pdo_fixed" -> "fixed_supply"
      [] p_e = "pdo_variable" -> "variable_supply"
      [] p_e = "pdo_battery" -> "battery"
      [] p_e = "apdo_pps" -> "programmable_supply"
      [] p_e = "apdo_spr_avs" -> "spr_adjustable_supply"
      [] p_e = "apdo_epr_avs" -> "epr_adjustable_supply"
      [] OTHER -> "no supply"

\* rdo2str_switch that leaves check_giveback clear for Battery
rdo2str_switch_nogb(ref) ==
    CASE ref = "pdo_fixed" ->
            [ok |-> TRUE, ind |-> rdo_part_map_at(0), check_giveback |-> TRUE]
      [] ref = "pdo_battery" ->
            [ok |-> TRUE, ind |-> rdo_part_map_at(1), check_giveback |-> FALSE]
      [] ref = "pdo_variable" ->
            [ok |-> TRUE, ind |-> rdo_part_map_at(0), check_giveback |-> TRUE]
      [] ref = "apdo_pps" ->
            [ok |-> TRUE, ind |-> rdo_part_map_at(2), check_giveback |-> FALSE]
      [] ref = "apdo_epr_avs" ->
            [ok |-> TRUE, ind |-> rdo_part_map_at(3), check_giveback |-> FALSE]
      [] ref = "apdo_spr_avs" ->
            [ok |-> TRUE, ind |-> rdo_part_map_at(3), check_giveback |-> FALSE]
      [] OTHER ->
            [ok |-> FALSE, ind |-> 0, check_giveback |-> FALSE]

\* the switch on ref_pdo: block start, giveback check, or the bad type exit
rdo2str_switch(ref) ==
    CASE ref = "pdo_fixed" ->
            [ok |-> TRUE, ind |-> rdo_part_map_at(0), check_giveback |-> TRUE]
      [] ref = "pdo_battery" ->
            [ok |-> TRUE, ind |-> rdo_part_map_at(1), check_giveback |-> TRUE]
      [] ref = "pdo_variable" ->
            [ok |-> TRUE, ind |-> rdo_part_map_at(0), check_giveback |-> TRUE]
      [] ref = "apdo_pps" ->
            [ok |-> TRUE, ind |-> rdo_part_map_at(2), check_giveback |-> FALSE]
      [] ref = "apdo_epr_avs" ->
            [ok |-> TRUE, ind |-> rdo_part_map_at(3), check_giveback |-> FALSE]
      [] ref = "apdo_spr_avs" ->
            [ok |-> TRUE, ind |-> rdo_part_map_at(3), check_giveback |-> FALSE]
      [] OTHER ->
            [ok |-> FALSE, ind |-> 0, check_giveback |-> FALSE]

rdo2str_head(ref) ==
    IF rdo2str_switch(ref).ok
    THEN <<"RDO for ", pdo_e_to_str(ref), "\n">>
    ELSE <<"RDO refers to bad PDO type\n">>

\* report_giveback reading bit 26
report_giveback_b26(w) == 26 \in w

\* bit 27 of the RDO
report_giveback(w) == 27 \in w

\* rdo2str_skip with the sense of the giveback bit exchanged
rdo2str_skip_swapped(nbt, w, ref) ==
    /\ rdo2str_switch(ref).check_giveback
    /\ \/ Tst(nbt, P_IT_FL_SRC) /\ report_giveback(w)
       \/ Tst(nbt, P_IT_FL_SINK) /\ ~report_giveback(w)

\* the two "continue" tests under check_giveback
rdo2str_skip(nbt, w, ref) ==
    /\ rdo2str_switch(ref).check_giveback
    /\ \/ Tst(nbt, P_IT_FL_SRC) /\ ~report_giveback(w)
       \/ Tst(nbt, P_IT_FL_SINK) /\ report_giveback(w)

\* rdo2str_value without the special case for mult 0xff
rdo2str_value_plain(w, d) ==
    LET l_rdo16 == extract(w, d) % U16
    IN  IF d.mult # 0
        THEN fmt_centi((l_rdo16 * d.mult) % U16)
        ELSE to_string(l_rdo16)

\* value text of an RDO field; mult 0xff is the AVS output voltage
rdo2str_value(w, d) ==
    LET l_rdo16 == extract(w, d) % U16
    IN  IF d.mult # 0
        THEN IF d.mult = 255
             THEN fmt_centi(((l_rdo16 \div 2) * 25) % U16)
             ELSE fmt_centi((l_rdo16 * d.mult) % U16)
        ELSE to_string(l_rdo16)

rdo2str_line(w, d) ==
    [name |-> pdo_str_at(d.nam_str_off), val |-> rdo2str_value(w, d)]

\* one pass of the for loop of rdo2str over s = [k, p, cont, lines, run]
rdo2str_step(w, ref, s) ==
    LET d == pdo_part_at(s.p)
        nbt == d.num_bits_typ
    IN  IF scan_break(s.p, s.k, s.cont)
        THEN [s EXCEPT !.run = FALSE]
        ELSE [k |-> (s.k + 1) % U8,
              p |-> s.p + 1,
              cont |-> Tst(nbt, P_IT_FL_CONT),
              lines |-> IF rdo2str_skip(nbt, w, ref) THEN s.lines
                        ELSE Append(s.lines, rdo2str_line(w, d)),
              run |-> TRUE]

RECURSIVE rdo2str_loop(_, _, _)
rdo2str_loop(w, ref, s) ==
    IF s.run THEN rdo2str_loop(w, ref, rdo2str_step(w, ref, s)) ELSE s

\* rdo2str as a function: the value of out on return
rdo2str(w, ref) ==
    [head |-> rdo2str_head(ref),
     lines |-> IF rdo2str_switch(ref).ok
               THEN rdo2str_loop(w, ref,
                        [k |-> 0, p |-> rdo2str_switch(ref).ind,
                         cont |-> FALSE, lines |-> <<>>, run |-> TRUE]).lines
               ELSE <<>>]

\* do_rdo_opt_ref with B taken as a Fixed reference
do_rdo_opt_ref_bfixed(c) ==
    CASE c \in {"F", "f", "B", "b"} -> "pdo_fixed"
      [] c \in {"V", "v"} -> "pdo_variable"
      [] c \in {"P", "p"} -> "apdo_pps"
      [] c \in {"A", "a", "E", "e"} -> "apdo_epr_avs"
      [] c \in {"S", "s"} -> "apdo_spr_avs"
      [] OTHER -> "err"

\* do_rdo_opt_ref that hands any other letter on to rdo2str as pdo_null
do_rdo_opt_ref_null(c) ==
    CASE c \in {"F", "f"} -> "pdo_fixed"
      [] c \in {"B", "b"} -> "pdo_battery"
      [] c \in {"V", "v"} -> "pdo_variable"
      [] c \in {"P", "p"} -> "apdo_pps"
      [] c \in {"A", "a", "E", "e"} -> "apdo_epr_avs"
      [] c \in {"S", "s"} -> "apdo_spr_avs"
      [] OTHER -> "pdo_null"

\* the switch of do_rdo_opt on the letter after the comma ("" when the
\* option has no comma); "err" stands for the return 1 exits
do_rdo_opt_ref(c) ==
    CASE c \in {"F", "f"} -> "pdo_fixed"
      [] c \in {"B", "b"} -> "pdo_battery"
      [] c \in {"V", "v"} -> "pdo_variable"
      [] c \in {"P", "p"} -> "apdo_pps"
      [] c \in {"A", "a", "E", "e"} -> "apdo_epr_avs"
      [] c \in {"S", "s"} -> "apdo_spr_avs"
      [] OTHER -> "err"

-----------------------------------------------------------------------------
(* build_raw_pdo and its attribute readers *)

RECURSIVE BitAnd(_, _)
\* a & b of two numbers
BitAnd(a, b) ==
    IF a = 0 \/ b = 0 THEN 0
    ELSE (IF a % 2 = 1 /\ b % 2 = 1 THEN 1 ELSE 0)
         + 2 * BitAnd(a \div 2, b \div 2)

IsDigit(c) == \E i \in 1 .. 10 : DigitChars[i] = c

DigitVal(c) == (CHOOSE i \in 1 .. 10 : DigitChars[i] = c) - 1

RECURSIVE skip_ws(_)
\* the white space a %u directive skips
skip_ws(t) ==
    IF t # <<>> /\ Head(t) \in {" ", "\t", "\n"} THEN skip_ws(Tail(t)) ELSE t

RECURSIVE scan_digits(_, _)
\* the value of the leading digits of t, continuing from acc
scan_digits(t, acc) ==
    IF t # <<>> /\ IsDigit(Head(t))
    THEN scan_digits(Tail(t), acc * 10 + DigitVal(Head(t)))
    ELSE acc

\* sscanf(text, "%u<suffix>", &v): conv is the return value (-1 is EOF).
\* The literal suffix after %u cannot change the count of conversions.
\* The texts of the model hold no '-' sign and their digits stay below
\* 2^31, so the value read is the number the digits denote.
sscanf_u(text) ==
    LET t1 == skip_ws(text)
        sign == t1 # <<>> /\ Head(t1) = "+"
        t2 == IF sign THEN Tail(t1) ELSE t1
    IN  IF t1 = <<>> THEN [conv |-> -1, val |-> 0]
        ELSE IF t2 = <<>> \/ ~IsDigit(Head(t2)) THEN [conv |-> 0, val |-> 0]
        ELSE [conv |-> 1, val |-> scan_digits(t2, 0)]

\* get_millivolts that gives 5000 for an attribute it cannot read
get_millivolts_dflt(name, m) ==
    IF name \in DOMAIN m /\ sscanf_u(m[name]).conv = 1
    THEN sscanf_u(m[name]).val ELSE 5000

get_millivolts(name, m) ==
    IF name \in DOMAIN m /\ sscanf_u(m[name]).conv = 1
    THEN sscanf_u(m[name]).val ELSE 0

get_milliamps(name, m) ==
    IF name \in DOMAIN m /\ sscanf_u(m[name]).conv = 1
    THEN sscanf_u(m[name]).val ELSE 0

get_milliwatts(name, m) ==
    IF name \in DOMAIN m /\ sscanf_u(m[name]).conv = 1
    THEN sscanf_u(m[name]).val ELSE 0

get_unitless(name, m) ==
    IF name \in DOMAIN m /\ sscanf_u(m[name]).conv = 1
    THEN sscanf_u(m[name]).val ELSE 0

\* r_pdo |= bits when v is non-zero
or_if(r, v, bits) == IF v # 0 THEN BitOr(r, bits) ELSE r

\* fixed_base with the voltage taken in 100 mV steps
fixed_base_mv100(src, m) ==
    LET ma == get_milliamps(IF src THEN "maximum_current"
                            ELSE "operational_current", m)
        mv == get_millivolts("voltage", m)
    IN  BitOr(Shl(BitAnd(ma \div 10, 1023), 0),
              Shl(BitAnd(mv \div 100, 1023), 10))

\* fixed_base with the voltage steps shifted into place unmasked
fixed_base_nomask(src, m) ==
    LET ma == get_milliamps(IF src THEN "maximum_current"
                            ELSE "operational_current", m)
        mv == get_millivolts("voltage", m)
    IN  BitOr(Shl(BitAnd(ma \div 10, 1023), 0),
              Shl(mv \div 50, 10))

\* case pdo_e::pdo_fixed: the current and voltage fields
fixed_base(src, m) ==
    LET ma == get_milliamps(IF src THEN "maximum_current"
                            ELSE "operational_current", m)
        mv == get_millivolts("voltage", m)
    IN  BitOr(Shl(BitAnd(ma \div 10, 1023), 0),
              Shl(BitAnd(mv \div 50, 1023), 10))

\* case pdo_e::pdo_fixed: the bits 23 to 29 of the PDO at index 1
fixed_ind1(r0, src, m) ==
    LET v1 == IF src
              THEN get_unitless("unchunked_extended_messages_supported", m)
              ELSE get_unitless("fast_role_swap_current", m)
        r1 == IF src THEN or_if(r0, v1, Shl(1, 24))
              ELSE or_if(r0, v1, Shl(BitAnd(v1, 3), 23))
        v2 == get_unitless("dual_role_data", m)
        r2 == or_if(r1, v2, Shl(1, 25))
        v3 == get_unitless("usb_communication_capable", m)
        r3 == or_if(r2, v3, Shl(1, 26))
        v4 == get_unitless("unconstrained_power", m)
        r4 == or_if(r3, v4, Shl(BitAnd(v4, 1), 27))
        v5 == IF src THEN get_unitless("usb_suspend_supported", m)
              ELSE get_unitless("higher_capability", m)
        r5 == or_if(r4, v5, Shl(BitAnd(v5, 1), 28))
        v6 == get_unitless("dual_role_power", m)
    IN  or_if(r5, v6, Shl(BitAnd(v6, 1), 29))

\* the switch of build_raw_pdo on pdo_el_
raw_pdo_switch(el, src, ind, m) ==
    CASE el = "pdo_fixed" ->
            IF ind = 1 THEN fixed_ind1(fixed_base(src, m), src, m)
            ELSE fixed_base(src, m)
      [] el = "pdo_battery" ->
            LET mw == get_milliwatts(IF src THEN "maximum_allowable_power"
                                     ELSE "operational_power", m)
                r1 == BitOr(Shl(1, 30), Shl(BitAnd(mw \div 250, 1023), 0))
                r2 == BitOr(r1, Shl(BitAnd(
                          get_millivolts("minimum_voltage", m) \div 50,
                          1023), 10))
            IN  BitOr(r2, Shl(BitAnd(
                          get_millivolts("maximum_voltage", m) \div 50,
                          1023), 20))
      [] el = "pdo_variable" ->
            LET ma == get_milliamps(IF src THEN "maximum_current"
                                    ELSE "operational_current", m)
                r1 == BitOr(Shl(1, 31), Shl(BitAnd(ma \div 10, 1023), 0))
                r2 == BitOr(r1, Shl(BitAnd(
                          get_millivolts("minimum_voltage", m) \div 50,
                          1023), 10))
            IN  BitOr(r2, Shl(BitAnd(
                          get_millivolts("maximum_voltage", m) \div 50,
                          1023), 20))
      [] el = "apdo_pps" ->
            LET ma == get_milliamps("maximum_current", m)
                r1 == BitOr(Shl(3, 30), Shl(BitAnd(ma \div 50, 127), 0))
                r2 == BitOr(r1, Shl(BitAnd(
                          get_millivolts("minimum_voltage", m) \div 100,
                          255), 8))
                r3 == BitOr(r2, Shl(BitAnd(
                          get_millivolts("maximum_voltage", m) \div 100,
                          255), 17))
                v == get_unitless("pps_power_limited", m)
            IN  IF src THEN or_if(r3, v, Shl(BitAnd(v, 1), 27)) ELSE r3
      [] el = "apdo_spr_avs" -> {}
      [] el = "apdo_epr_avs" ->
            LET mw == get_milliwatts("pdp", m)
                r1 == BitOr(BitOr(Shl(3, 30), Shl(1, 28)),
                            Shl(BitAnd(mw \div 1000, 255), 0))
                r2 == BitOr(r1, Shl(BitAnd(
                          get_millivolts("minimum_voltage", m) \div 100,
                          255), 8))
                r3 == BitOr(r2, Shl(BitAnd(
                          get_millivolts("maximum_voltage", m) \div 100,
                          511), 17))
                v == get_unitless("peak_current", m)
            IN  or_if(r3, v, Shl(BitAnd(v, 3), 26))
      [] OTHER -> {}

\* build_raw_pdo without the test for an empty map
build_raw_pdo_noempty(el, src, ind, err, m) ==
    IF err THEN {}
    ELSE raw_pdo_switch(el, src, ind, m)

\* build_raw_pdo: the value left in raw_pdo_; err is the error of
\* map_d_regu_files and m the map it filled
build_raw_pdo(el, src, ind, err, m) ==
    IF err THEN {}
    ELSE IF DOMAIN m = {} THEN {}
    ELSE raw_pdo_switch(el, src, ind, m)

-----------------------------------------------------------------------------
(* sg_get_num and sg_get_llnum (src/src/sg_pr2serr.c)                      *)
(*                                                                         *)
(* An int or int64_t is the set of the positions of the 1 bits of its      *)
(* two's complement form, a subset of 0..w-1 for w = 32 or 64; the sign is *)
(* bit w-1 and -1 is the full set.                                         *)

\* the number x (below 2^31) as a set of bits
NumBits(x) == {j \in 0 .. 30 : (x \div (2 ^ j)) % 2 = 1}

\* a << n in w bits
ShlBits(a, n, w) == {i + n : i \in {j \in a : j + n < w}}

\* the carry into position i of a + b: some lower position generates one
\* and every position between passes it on
Carry(a, b, i) ==
    \E j \in a \cap b :
        j < i /\ \A m \in (j + 1) .. (i - 1) : m \in a \/ m \in b

\* a + b in w bits, wrapping
AddBits(a, b, w) ==
    {i \in 0 .. (w - 1) : ((i \in a) # (i \in b)) # Carry(a, b, i)}

RECURSIVE MulBits(_, _, _)
\* a * b in w bits, wrapping: the sum of a << i over the bits i of b
MulBits(a, b, w) ==
    IF b = {} THEN {}
    ELSE LET i == CHOOSE x \in b : \A y \in b : x <= y
         IN  AddBits(ShlBits(a, i, w), MulBits(a, b \ {i}, w), w)

\* -1 in w bits
MinusOne(w) == 0 .. (w - 1)

LowerChars == <<"a", "b", "c", "d", "e", "f", "g", "h", "i", "j", "k", "l",
                "m", "n", "o", "p", "q", "r", "s", "t", "u", "v", "w", "x",
                "y", "z">>
UpperChars == <<"A", "B", "C", "D", "E", "F", "G", "H", "I", "J", "K", "L",
                "M", "N", "O", "P", "Q", "R", "S", "T", "U", "V", "W", "X",
                "Y", "Z">>

toupper(c) ==
    IF \E i \in 1 .. 26 : LowerChars[i] = c
    THEN UpperChars[CHOOSE i \in 1 .. 26 : LowerChars[i] = c]
    ELSE c

\* the value of c as a digit of the base, -1 when it is none
digit_of(c, base) ==
    IF IsDigit(c) THEN DigitVal(c)
    ELSE IF base = 16 /\ \E i \in 1 .. 6 : UpperChars[i] = toupper(c)
         THEN 9 + (CHOOSE i \in 1 .. 6 : UpperChars[i] = toupper(c))
         ELSE -1

RECURSIVE scan_num(_, _, _, _, _)
\* the digits at the head of t: how many, their exact value in w bits,
\* and the text after them
scan_num(t, base, acc, n, w) ==
    IF t # <<>> /\ digit_of(Head(t), base) >= 0
    THEN LET d == NumBits(digit_of(Head(t), base))
             a == IF base = 16 THEN ShlBits(acc, 4, w)
                  ELSE AddBits(ShlBits(acc, 3, w), ShlBits(acc, 1, w), w)
             v == AddBits(a, d, w)
         \* the test makes v a value before the next digit is read
         IN  IF v = {} THEN scan_num(Tail(t), base, {}, n + 1, w)
             ELSE scan_num(Tail(t), base, v, n + 1, w)
    ELSE [n |-> n, val |-> acc, rest |-> t]

\* the integer directive of sscanf, %x (base 16) or %d (base 10): white
\* space, a '+' sign, for %x a 0x prefix, then at least one digit.  The
\* texts that reach it hold no '-': strpbrk ends the text there.
scanf_int(t, base) ==
    LET t1 == skip_ws(t)
        t2 == IF t1 # <<>> /\ Head(t1) = "+" THEN Tail(t1) ELSE t1
        t3 == IF base = 16 /\ Len(t2) >= 2 /\ t2[1] = "0"
                 /\ t2[2] \in {"x", "X"}
              THEN SubSeq(t2, 3, Len(t2)) ELSE t2
        s == scan_num(t3, base, {}, 0, 4 * Len(t) + 4)
    IN  [ok |-> s.n > 0, val |-> s.val, rest |-> s.rest]

\* the value the directive stores in a w-bit object: the C library reads a
\* 64-bit number, clamped to ULLONG_MAX (%x) or LLONG_MAX (%d), and keeps
\* its low w bits
scanf_store(val, base, w) ==
    LET v64 == IF base = 16
               THEN IF \E i \in val : i >= 64 THEN 0 .. 63 ELSE val
               ELSE IF \E i \in val : i >= 63 THEN 0 .. 62 ELSE val
    IN  {i \in v64 : i < w}

\* strspn(buf, " \t")
RECURSIVE strspn_blank(_)
strspn_blank(t) ==
    IF t # <<>> /\ Head(t) \in {" ", "\t"} THEN 1 + strspn_blank(Tail(t))
    ELSE 0

\* position of the first character of t that is in cs, 0 when none
strpbrk(t, cs) ==
    IF \E i \in 1 .. Len(t) : t[i] \in cs
    THEN CHOOSE i \in 1 .. Len(t) :
             t[i] \in cs /\ \A j \in 1 .. (i - 1) : t[j] \notin cs
    ELSE 0

\* the multiplier of a K, M, G, T, P or E suffix: power of 1024 or of 1000
sg_mult(num, rs, c2, c3, p2, p10, w) ==
    IF rs = 2 THEN MulBits(num, p2, w)
    ELSE IF c2 \in {"B", "D"} THEN MulBits(num, p10, w)
    ELSE IF c2 = "I" /\ rs = 4 /\ c3 = "B" THEN MulBits(num, p2, w)
    ELSE MinusOne(w)

\* 1000^n as bits
RECURSIVE Pow1000(_, _)
Pow1000(n, w) ==
    IF n = 0 THEN {0} ELSE MulBits(NumBits(1000), Pow1000(n - 1, w), w)

RECURSIVE sg_get(_, _, _)

\* sg_get from the return of sscanf on: s is what the directive read, b2p
\* the text it was given
sg_get_scanned(s, b2p, base, is_hex, w, lbn) ==
    LET nchr == IF is_hex THEN 1 ELSE IF base = 16 THEN 0 ELSE 3
        rs == IF ~s.ok THEN 0
               ELSE 1 + (IF Len(s.rest) < nchr THEN Len(s.rest) ELSE nchr)
        num == scanf_store(s.val, base, w)
        c == toupper(s.rest[1])
        c2 == IF rs > 2 THEN toupper(s.rest[2]) ELSE ""
        c3 == IF rs > 3 THEN toupper(s.rest[3]) ELSE ""
        xp == IF strpbrk(b2p, {"x"}) # 0 THEN strpbrk(b2p, {"x"})
              ELSE strpbrk(b2p, {"X"})
        pp == strpbrk(b2p, {"+"})
        arg(p) == sg_get(SubSeq(b2p, p + 1, Len(b2p)), w, lbn)
    IN  IF rs < 1 THEN MinusOne(w)
        ELSE IF rs = 1 THEN num
        ELSE IF is_hex /\ c \notin {"+", "X"} THEN MinusOne(w)
        ELSE CASE c = "C" -> num
               [] c = "W" -> MulBits(num, {1}, w)
               [] c = "B" -> MulBits(num, {9}, w)
               [] c = "K" -> sg_mult(num, rs, c2, c3, {10}, Pow1000(1, w), w)
               [] c = "M" -> sg_mult(num, rs, c2, c3, {20}, Pow1000(2, w), w)
               [] c = "G" -> sg_mult(num, rs, c2, c3, {30}, Pow1000(3, w), w)
               [] c = "T" /\ w = 64 ->
                     sg_mult(num, rs, c2, c3, {40}, Pow1000(4, w), w)
               [] c = "P" /\ w = 64 ->
                     sg_mult(num, rs, c2, c3, {50}, Pow1000(5, w), w)
               [] c = "E" /\ w = 64 ->
                     sg_mult(num, rs, c2, c3, {60}, Pow1000(6, w), w)
               [] c = "X" ->
                     IF xp # 0 /\ arg(xp) # MinusOne(w)
                     THEN MulBits(num, arg(xp), w) ELSE MinusOne(w)
               [] c = "+" ->
                     IF pp # 0 /\ arg(pp) # MinusOne(w)
                     THEN AddBits(num, arg(pp), w) ELSE MinusOne(w)
               [] OTHER -> MinusOne(w)

\* sg_get from the copy into lb on: b is the text that is scanned
sg_get_lb(b, w, lbn) ==
    LET is_hex == Len(b) >= 2 /\ b[1] = "0" /\ b[2] \in {"x", "X"}
        b2p == IF is_hex THEN SubSeq(b, 3, Len(b)) ELSE b
        base == IF is_hex \/ toupper(b[Len(b)]) = "H" THEN 16 ELSE 10
    \* b[len - 1] with len = 0 reads the byte before lb: whatever it
    \* holds, the scan of the empty text that follows fails
    IN  IF b = <<>> THEN MinusOne(w)
        ELSE sg_get_scanned(scanf_int(b2p, base), b2p, base, is_hex, w, lbn)

\* the common body of sg_get_num (w = 32, lbn = sizeof(lb) - 1 = 15) and
\* sg_get_llnum (w = 64, lbn = 31).  Products and sums wrap.
sg_get(buf, w, lbn) ==
    LET n == strspn_blank(buf)
        buf1 == SubSeq(buf, n + 1, Len(buf))
        cp == strpbrk(buf1, {" ", "\t", ",", "#", "-"})
        len == IF cp = 0 THEN Len(buf1)
               ELSE IF cp - 1 < lbn THEN cp - 1 ELSE lbn
    IN  IF buf = <<>> \/ n = Len(buf) THEN MinusOne(w)
        ELSE sg_get_lb(SubSeq(buf1, 1, len), w, lbn)

sg_get_num(buf) == sg_get(buf, 32, 15)

\* the characters of a number sg_get_llnum copies into lb: sizeof(lb) - 1
MaxLb == 31

sg_get_llnum(buf) == sg_get(buf, 64, MaxLb)

-----------------------------------------------------------------------------
(* Inputs *)

\* low 24 bits of the literal words
Low24(p) == (p * 7654321) % (2 ^ 24)

\* the literal words: every top byte over each low pattern
Words == {BitOr(Shl(hi, 24), Shl(Low24(p), 0)) :
             hi \in 0 .. 255, p \in 0 .. MaxPat}

\* letters after the comma of --rdo=RDO,REF; "" is the option without comma
RefLetters == {"F", "B", "V", "P", "A", "E", "S", "f", "X", ""}

HexChars == <<"0", "1", "2", "3", "4", "5", "6", "7", "8", "9",
              "a", "b", "c", "d", "e", "f">>

\* a word written as 0x%08x
ToHex(w) ==
    <<"0", "x">> \o [i \in 1 .. 8 |-> HexChars[Field(w, 4 * (8 - i), 4) + 1]]

\* an option that was not given (a null char pointer)
nullptr == <<"nullptr">>

\* the text after the literal: ,IND of --pdo-*= and ,REF of --rdo=
IndText(ix) == IF ix = 0 THEN <<>> ELSE <<",">> \o to_string(ix)
RefText(c) == IF c = "" THEN <<>> ELSE <<",", c>>

\* arguments of --pdo-snk= / --pdo-src= and of --rdo= over the literal words
PdoOpts == {ToHex(n) \o IndText(ix) : n \in Words, ix \in 0 .. MaxInd}
RdoOpts == {ToHex(n) \o RefText(c) : n \in Words, c \in RefLetters}

\* LIT of the options: decimal and 0x literals on both sides of 2^32 - 1
PlainLiterals ==
    {<<"0">>, <<"5">>, <<"4", "2", "9", "4", "9", "6", "7", "2", "9", "5">>,
     <<"4", "2", "9", "4", "9", "6", "7", "2", "9", "6">>,
     <<"9", "9", "9", "9", "9", "9", "9", "9", "9", "9", "9">>,
     <<"0", "x", "0">>,
     <<"0", "x", "f", "f", "f", "f", "f", "f", "f", "f">>,
     <<"0", "X", "1", "F">>,
     <<"0", "x", "1", "0", "0", "0", "0", "0", "0", "0", "0">>,
     <<"0", "x", "f", "f", "f", "f", "f", "f", "f", "f", "f", "f", "f", "f", "f", "f", "f", "f">>}

\* a literal of more than MaxLb characters: zeros up to the last place of
\* lb but one, then 5000000000
LongLiteral ==
    [i \in 1 .. (MaxLb - 1) |-> "0"] \o <<"5", "0", "0", "0", "0", "0", "0", "0", "0", "0">>

\* texts that are not a number
BadLiterals ==
    {<<>>, <<"z", "z">>, <<"0", "x">>, <<"0", "x", "g", "1">>,
     <<"1", "2", "z">>, <<"-", "7">>, <<"x", "5">>}

\* numbers in the other forms sg_get_llnum reads: multiplier suffix, blank
\* or sign in front, hex suffix, sum, product, hyphen as terminator
OtherLiterals ==
    {<<"4", "k">>, <<" ", "7">>, <<"+", "7">>, <<"f", "f", "h">>,
     <<"3", "+", "1", "k">>, <<"1", "2", "-", "3">>, <<"2", "x", "3">>,
     <<"4", "G">>}

Literals == PlainLiterals \cup {LongLiteral} \cup BadLiterals \cup OtherLiterals

\* arguments of --pdo-snk= / --pdo-src= and of --rdo= over these literals
MainPdoOpts ==
    {l \o x : l \in Literals, x \in {<<>>, <<",", "1">>}}
    \cup {<<"5", ",", "z">>}
MainRdoOpts ==
    {l \o x : l \in Literals, x \in {<<",", "F">>}}
    \cup {<<"5", ",", "X">>, <<"5">>, <<"5", ",", "p">>}

\* contents of a sysfs attribute file
mV(n) == to_string(n) \o <<"m", "V">>
mA(n) == to_string(n) \o <<"m", "A">>
mW(n) == to_string(n) \o <<"m", "W">>

NoAttrs == [n \in {} |-> <<>>]

FixedFlags ==
    [n \in {"maximum_current", "operational_current",
            "unchunked_extended_messages_supported",
            "fast_role_swap_current", "dual_role_data",
            "usb_communication_capable", "unconstrained_power",
            "usb_suspend_supported", "higher_capability",
            "dual_role_power"} |->
        CASE n = "maximum_current" -> mA(3000)
          [] n = "operational_current" -> mA(1500)
          [] n = "fast_role_swap_current" -> <<"3">>
          [] OTHER -> <<"1">>]

\* attribute maps of a <n>:fixed_supply directory
FixedMaps ==
    {("voltage" :> mV(50 * i)) @@ x :
        i \in 0 .. MaxVoltStep, x \in {NoAttrs, FixedFlags}}

OtherAttrs ==
    [n \in {"maximum_current", "operational_current",
            "maximum_allowable_power", "operational_power",
            "minimum_voltage", "maximum_voltage", "pps_power_limited",
            "pdp", "peak_current"} |->
        CASE n = "maximum_current" -> mA(3000)
          [] n = "operational_current" -> mA(1500)
          [] n = "maximum_allowable_power" -> mW(15000)
          [] n = "operational_power" -> mW(7500)
          [] n = "minimum_voltage" -> mV(5000)
          [] n = "maximum_voltage" -> mV(20000)
          [] n = "pps_power_limited" -> <<"1">>
          [] n = "pdp" -> mW(140000)
          [] OTHER -> <<"2">>]

\* a directory with every attribute file of its type
FullAttrs(e) ==
    IF e = "pdo_fixed" THEN ("voltage" :> mV(5000)) @@ FixedFlags
    ELSE OtherAttrs

\* contents of an attribute file that "%u" does not convert
BadTexts == {<<"x">>, <<>>, <<"m", "V">>}

\* m with attribute a missing, with a holding text t, and a alone
Without(m, a) == [n \in DOMAIN m \ {a} |-> m[n]]
WithText(m, a, t) == (a :> t) @@ m
Only(m, a) == [n \in {a} |-> m[n]]

\* contents of an attribute file whose number is beyond every field: 7 for
\* a flag, 999999 for a voltage, current or power
BigTexts == {<<"7">>, <<"9", "9", "9", "9", "9", "9">>}

\* a full directory, and the directories that differ from it in one file:
\* the file missing, unreadable as a number, holding 0, or holding a number
\* beyond its field; and the directories with one file only
AttrVariants(e) ==
    LET f == FullAttrs(e)
    IN  {f}
        \cup {Without(f, a) : a \in DOMAIN f}
        \cup {WithText(f, a, t) :
                  a \in DOMAIN f, t \in BadTexts \cup {<<"0">>} \cup BigTexts}
        \cup {Only(f, a) : a \in DOMAIN f}
        \cup {WithText(NoAttrs, a, t) : a \in DOMAIN f, t \in BadTexts}

\* the PDO directories populate_pdos can meet: type, and attribute map
EncInputs ==
    {[el |-> "pdo_fixed", m |-> x] : x \in FixedMaps}
    \cup {[el |-> e, m |-> x] :
            e \in pdo_e \ {"pdo_fixed"}, x \in {NoAttrs, OtherAttrs}}
    \cup UNION {{[el |-> e, m |-> x] : x \in AttrVariants(e)} :
                   e \in pdo_e \ {"pdo_null"}}

-----------------------------------------------------------------------------
(* The state machine *)

NoElem ==
    [pdo_el_ |-> "pdo_null", is_source_caps_ |-> FALSE, pdo_ind_ |-> 0,
     raw_pdo_ |-> {}, ascii_pdo_m_ |-> NoAttrs]

NoOut == [head |-> <<>>, lines |-> <<>>]

\* the two callers of the decoders
Callers == {1, 2}

\* the locals of a call that has not been made
NoCall ==
    [fn |-> "none", at |-> "idle", w |-> {}, i1 |-> FALSE, src |-> FALSE,
     ref |-> "pdo_null", k |-> 0, p |-> 0, cont |-> FALSE, out |-> NoOut]

Init ==
    /\ pc = "start"
    /\ op = [pdo_opt_p |-> nullptr, rdo_opt_p |-> nullptr,
             is_pdo_snk |-> FALSE]
    /\ a_pdo = {}
    /\ ind1 = FALSE
    /\ is_src = FALSE
    /\ a_rdo = {}
    /\ ref_pdo = "pdo_null"
    /\ k = 0
    /\ do_fld_p = 0
    /\ fl_cont = FALSE
    /\ out = NoOut
    /\ stdout = <<>>
    /\ res = 0
    /\ elem = NoElem
    /\ ec = FALSE
    /\ calls = [c \in Callers |-> NoCall]

\* bw::print("{}", ss) in main: an empty string adds nothing
print(ss) == IF ss = NoOut THEN stdout ELSE Append(stdout, ss)

\* the option loop of main stores the arguments of --pdo-snk= / --pdo-src=
\* (p, snk) and of --rdo= (r); main then goes to the first one given
main_getopt(p, r, snk) ==
    /\ pc = "start"
    /\ p # nullptr \/ r # nullptr
    /\ op' = [pdo_opt_p |-> p, rdo_opt_p |-> r, is_pdo_snk |-> snk]
    /\ pc' = IF p # nullptr THEN "do_pdo_opt" ELSE "do_rdo_opt"
    /\ UNCHANGED <<calls, a_pdo, ind1, is_src, a_rdo, ref_pdo, k, do_fld_p,
                   fl_cont, out, stdout, res, elem, ec>>

\* entry of pdo2str up to the for loop
pdo2str_enter(w, i1, src) ==
    /\ a_pdo' = w
    /\ ind1' = i1
    /\ is_src' = src
    /\ k' = 0
    /\ fl_cont' = FALSE
    /\ do_fld_p' = pdo2str_start(w, i1)
    /\ out' = [head |-> pdo2str_head(w, i1, src), lines |-> <<>>]
    /\ pc' = "pdo2str"

\* n < 0 of an int or int64_t of w bits
IsNeg(n, w) == (w - 1) \in n

\* the text after the first comma of t; nullptr when t has no comma
after_comma(t) ==
    IF strpbrk(t, {","}) = 0 THEN nullptr
    ELSE SubSeq(t, strpbrk(t, {","}) + 1, Len(t))

\* the checks of do_pdo_opt ahead of the pdo2str call: TRUE when it returns 1
do_pdo_opt_bad(t) ==
    \/ IsNeg(sg_get_llnum(t), 64)
    \/ \E i \in sg_get_llnum(t) : i >= 32
    \/ /\ after_comma(t) # nullptr
       /\ IsNeg(sg_get_num(after_comma(t)), 32)

\* the index argument of do_pdo_opt: k of "1 == k"
do_pdo_opt_k(t) ==
    IF after_comma(t) = nullptr THEN {} ELSE sg_get_num(after_comma(t))

\* (uint32_t)n
U32Cast(n) == {i \in n : i < 32}

\* do_pdo_opt with a main that goes on to the --rdo= block when it returns 1
do_pdo_opt_goon ==
    /\ pc = "do_pdo_opt"
    /\ IF do_pdo_opt_bad(op.pdo_opt_p)
       THEN /\ res' = 1
            /\ pc' = IF op.rdo_opt_p = nullptr THEN "ret" ELSE "do_rdo_opt"
            /\ UNCHANGED <<a_pdo, ind1, is_src, k, do_fld_p, fl_cont, out>>
       ELSE /\ pdo2str_enter(U32Cast(sg_get_llnum(op.pdo_opt_p)),
                             do_pdo_opt_k(op.pdo_opt_p) = {0},
                             ~op.is_pdo_snk)
            /\ res' = res
    /\ UNCHANGED <<op, calls, a_rdo, ref_pdo, stdout, elem, ec>>

\* do_pdo_opt up to the loop of pdo2str; when it returns 1 main returns 1
do_pdo_opt ==
    /\ pc = "do_pdo_opt"
    /\ IF do_pdo_opt_bad(op.pdo_opt_p)
       THEN /\ res' = 1
            /\ pc' = "ret"
            /\ UNCHANGED <<a_pdo, ind1, is_src, k, do_fld_p, fl_cont, out>>
       ELSE /\ pdo2str_enter(U32Cast(sg_get_llnum(op.pdo_opt_p)),
                             do_pdo_opt_k(op.pdo_opt_p) = {0},
                             ~op.is_pdo_snk)
            /\ res' = res
    /\ UNCHANGED <<op, calls, a_rdo, ref_pdo, stdout, elem, ec>>

\* the scan state held in the variables
scan_state == [k |-> k, p |-> do_fld_p, cont |-> fl_cont,
               lines |-> out.lines, run |-> TRUE]

\* one pass of the loop body of pdo2str
pdo2str_iter ==
    /\ pc = "pdo2str"
    /\ ~scan_break(do_fld_p, k, fl_cont)
    /\ LET s == pdo2str_step(a_pdo, is_src, scan_state)
       IN  /\ k' = s.k
           /\ do_fld_p' = s.p
           /\ fl_cont' = s.cont
           /\ out' = [out EXCEPT !.lines = s.lines]
    /\ UNCHANGED <<pc, op, calls, a_pdo, ind1, is_src, a_rdo, ref_pdo, stdout, res,
                   elem, ec>>

\* the loop of pdo2str breaks; pdo2str and do_pdo_opt return, main prints
\* the string and returns 0 unless --rdo= was given as well
pdo2str_break ==
    /\ pc = "pdo2str"
    /\ scan_break(do_fld_p, k, fl_cont)
    /\ stdout' = print(out)
    /\ pc' = IF op.rdo_opt_p = nullptr THEN "ret" ELSE "do_rdo_opt"
    /\ res' = 0
    /\ UNCHANGED <<op, calls, a_pdo, ind1, is_src, a_rdo, ref_pdo, k, do_fld_p,
                   fl_cont, out, elem, ec>>

\* the letter toupper(*(ccp + 1)) do_rdo_opt switches on: "" when the
\* option has no comma or ends at it
do_rdo_opt_letter(t) ==
    IF after_comma(t) = nullptr \/ after_comma(t) = <<>> THEN ""
    ELSE Head(after_comma(t))

\* the checks of do_rdo_opt on the literal: TRUE when it returns 1
do_rdo_opt_bad(t) ==
    \/ IsNeg(sg_get_llnum(t), 64)
    \/ \E i \in sg_get_llnum(t) : i >= 32

\* do_rdo_opt up to the loop of rdo2str; when it returns 1 main prints the
\* empty string and returns 1
do_rdo_opt ==
    /\ pc = "do_rdo_opt"
    /\ LET t == op.rdo_opt_p
           ref == do_rdo_opt_ref(do_rdo_opt_letter(t))
       IN  IF do_rdo_opt_bad(t) \/ ref = "err"
           THEN /\ res' = 1
                /\ pc' = "ret"
                /\ stdout' = stdout
                /\ UNCHANGED <<a_rdo, ref_pdo, k, do_fld_p, fl_cont, out>>
           ELSE /\ a_rdo' = U32Cast(sg_get_llnum(t))
                /\ ref_pdo' = ref
                /\ k' = 0
                /\ fl_cont' = FALSE
                /\ out' = [head |-> rdo2str_head(ref), lines |-> <<>>]
                /\ IF rdo2str_switch(ref).ok
                   THEN /\ do_fld_p' = rdo2str_switch(ref).ind
                        /\ pc' = "rdo2str"
                        /\ res' = res
                        /\ stdout' = stdout
                   ELSE /\ do_fld_p' = do_fld_p
                        /\ pc' = "ret"
                        /\ res' = 0
                        /\ stdout' = Append(stdout, [head |-> rdo2str_head(ref),
                                                     lines |-> <<>>])
    /\ UNCHANGED <<op, calls, a_pdo, ind1, is_src, elem, ec>>

\* one pass of the loop body of rdo2str
rdo2str_iter ==
    /\ pc = "rdo2str"
    /\ ~scan_break(do_fld_p, k, fl_cont)
    /\ LET s == rdo2str_step(a_rdo, ref_pdo, scan_state)
       IN  /\ k' = s.k
           /\ do_fld_p' = s.p
           /\ fl_cont' = s.cont
           /\ out' = [out EXCEPT !.lines = s.lines]
    /\ UNCHANGED <<pc, op, calls, a_pdo, ind1, is_src, a_rdo, ref_pdo, stdout, res,
                   elem, ec>>

\* the loop of rdo2str breaks; rdo2str and do_rdo_opt return, main prints
\* the string and returns 0
rdo2str_break ==
    /\ pc = "rdo2str"
    /\ scan_break(do_fld_p, k, fl_cont)
    /\ stdout' = print(out)
    /\ pc' = "ret"
    /\ res' = 0
    /\ UNCHANGED <<op, calls, a_pdo, ind1, is_src, a_rdo, ref_pdo, k, do_fld_p,
                   fl_cont, out, elem, ec>>

\* populate_pdos makes a pdo_elem for one PDO directory and, under --long,
\* calls build_raw_pdo on it
populate_pdos(in, src, ind, err) ==
    /\ pc = "start"
    /\ elem' = [pdo_el_ |-> in.el, is_source_caps_ |-> src, pdo_ind_ |-> ind,
                raw_pdo_ |-> build_raw_pdo(in.el, src, ind, err, in.m),
                ascii_pdo_m_ |-> in.m]
    /\ ec' = err
    /\ pc' = "built"
    /\ UNCHANGED <<op, calls, a_pdo, ind1, is_src, a_rdo, ref_pdo, k, do_fld_p,
                   fl_cont, out, stdout, res>>

\* the built word is decoded for the role and index of its pdo_elem
decode_raw_pdo ==
    /\ pc = "built"
    /\ pdo2str_enter(elem.raw_pdo_, elem.pdo_ind_ = 1, elem.is_source_caps_)
    /\ UNCHANGED <<op, calls, a_rdo, ref_pdo, stdout, res, elem, ec>>

\* decoding of --pdo-snk= / --pdo-src= literals
NextPdo ==
    \/ /\ pc = "start"
       /\ \E p \in PdoOpts, snk \in BOOLEAN : main_getopt(p, nullptr, snk)
    \/ do_pdo_opt
    \/ pdo2str_iter
    \/ pdo2str_break

SpecPdo == Init /\ [][NextPdo]_vars

\* decoding of --rdo= literals
NextRdo ==
    \/ /\ pc = "start"
       /\ \E r \in RdoOpts : main_getopt(nullptr, r, FALSE)
    \/ do_rdo_opt
    \/ rdo2str_iter
    \/ rdo2str_break

SpecRdo == Init /\ [][NextRdo]_vars

\* a PDO directory is encoded and the word decoded again
NextEnc ==
    \/ /\ pc = "start"
       /\ \E in \in EncInputs, src \in BOOLEAN, ind \in 1 .. MaxInd,
             err \in BOOLEAN : populate_pdos(in, src, ind, err)
    \/ decode_raw_pdo
    \/ pdo2str_iter
    \/ pdo2str_break

SpecEnc == Init /\ [][NextEnc]_vars

\* the width in bits of row i of pdo_part_a
Width(i) == pdo_part_at(i).num_bits_typ % 16

\* the rows pdo2str and rdo2str show as a scaled value
PdoScaledRows == {i \in 0 .. 29 : pdo_part_at(i).mult # 0}
RdoScaledRows == {i \in 30 .. 65 : pdo_part_at(i).mult # 0}

\* a word with raw in the field of row i and every other bit equal to fill
FieldWord(i, raw, fill) ==
    LET d == pdo_part_at(i)
    IN  BitOr(Shl(raw, d.low_pdo_bit),
              IF fill
              THEN (0 .. 31) \ (d.low_pdo_bit .. (d.low_pdo_bit + Width(i) - 1))
              ELSE {})

\* the pass of the loop of pdo2str that shows row i, on a word that holds
\* raw in the field of the row
pdo2str_field(i, raw, fill) ==
    /\ pc = "start"
    /\ a_pdo' = FieldWord(i, raw, fill)
    /\ do_fld_p' = i
    /\ out' = [head |-> <<>>,
               lines |-> <<pdo2str_line(FieldWord(i, raw, fill),
                                        pdo_part_at(i))>>]
    /\ pc' = "pdo_field"
    /\ UNCHANGED <<op, calls, ind1, is_src, a_rdo, ref_pdo, k, fl_cont, stdout, res,
                   elem, ec>>

\* the pass of the loop of rdo2str that shows row i, likewise
rdo2str_field(i, raw, fill) ==
    /\ pc = "start"
    /\ a_rdo' = FieldWord(i, raw, fill)
    /\ do_fld_p' = i
    /\ out' = [head |-> <<>>,
               lines |-> <<rdo2str_line(FieldWord(i, raw, fill),
                                        pdo_part_at(i))>>]
    /\ pc' = "rdo_field"
    /\ UNCHANGED <<op, calls, a_pdo, ind1, is_src, ref_pdo, k, fl_cont, stdout, res,
                   elem, ec>>

\* every scaled row shown for every raw value of its field
NextScale ==
    \/ /\ pc = "start"
       /\ \E i \in PdoScaledRows, fill \in BOOLEAN :
             \E raw \in 0 .. (2 ^ Width(i) - 1) : pdo2str_field(i, raw, fill)
    \/ /\ pc = "start"
       /\ \E i \in RdoScaledRows, fill \in BOOLEAN :
             \E raw \in 0 .. (2 ^ Width(i) - 1) : rdo2str_field(i, raw, fill)

SpecScale == Init /\ [][NextScale]_vars

\* both kinds of option in one run, over the literals
NextMain ==
    \/ /\ pc = "start"
       /\ \E p \in MainPdoOpts \cup {nullptr}, r \in MainRdoOpts \cup {nullptr},
             snk \in BOOLEAN : main_getopt(p, r, snk)
    \/ do_pdo_opt
    \/ pdo2str_iter
    \/ pdo2str_break
    \/ do_rdo_opt
    \/ rdo2str_iter
    \/ rdo2str_break

SpecMain == Init /\ [][NextMain]_vars

\* the words and RDO references of the calls made side by side: top byte
\* 0x18 (Fixed, bits 28 and 27 set), 0x40 (Battery), 0xd0 (AVS)
ParWords == {BitOr(Shl(hi, 24), Shl(Low24(1), 0)) : hi \in {24, 64, 208}}
ParRefs == {"pdo_fixed", "pdo_battery", "apdo_pps", "pdo_null"}

\* the variables of the single call main makes
main_vars == <<pc, op, a_pdo, ind1, is_src, a_rdo, ref_pdo, k, do_fld_p,
               fl_cont, out, stdout, res, elem, ec>>

\* fl_cont as one object that the calls share
call_cont_shared(c) == calls[1].cont

\* fl_cont of call c: a local of pdo2str and of rdo2str
call_cont(c) == calls[c].cont

\* caller c enters pdo2str and reaches its for loop
pdo2str_call(c, w, i1, src) ==
    /\ pc = "start"
    /\ calls[c].at = "idle"
    /\ calls' = [calls EXCEPT ![c] =
                    [fn |-> "pdo2str", at |-> "loop", w |-> w, i1 |-> i1,
                     src |-> src, ref |-> "pdo_null", k |-> 0,
                     p |-> pdo2str_start(w, i1), cont |-> FALSE,
                     out |-> [head |-> pdo2str_head(w, i1, src),
                              lines |-> <<>>]]]
    /\ UNCHANGED main_vars

\* caller c enters rdo2str and reaches its for loop, or returns from the
\* default case of the switch
rdo2str_call(c, w, ref) ==
    /\ pc = "start"
    /\ calls[c].at = "idle"
    /\ calls' = [calls EXCEPT ![c] =
                    [fn |-> "rdo2str",
                     at |-> IF rdo2str_switch(ref).ok THEN "loop" ELSE "done",
                     w |-> w, i1 |-> FALSE, src |-> FALSE, ref |-> ref,
                     k |-> 0, p |-> rdo2str_switch(ref).ind, cont |-> FALSE,
                     out |-> [head |-> rdo2str_head(ref), lines |-> <<>>]]]
    /\ UNCHANGED main_vars

\* one pass of the loop body of the decoder caller c is in
call_iter(c) ==
    /\ calls[c].at = "loop"
    /\ ~scan_break(calls[c].p, calls[c].k, call_cont(c))
    /\ LET l == calls[c]
           s0 == [k |-> l.k, p |-> l.p, cont |-> call_cont(c),
                  lines |-> l.out.lines, run |-> TRUE]
           s == IF l.fn = "pdo2str" THEN pdo2str_step(l.w, l.src, s0)
                ELSE rdo2str_step(l.w, l.ref, s0)
       IN  calls' = [calls EXCEPT ![c] =
                        [l EXCEPT !.k = s.k, !.p = s.p, !.cont = s.cont,
                                  !.out = [head |-> l.out.head,
                                           lines |-> s.lines]]]
    /\ UNCHANGED main_vars

\* the loop of the decoder caller c is in breaks and the decoder returns
call_break(c) ==
    /\ calls[c].at = "loop"
    /\ scan_break(calls[c].p, calls[c].k, call_cont(c))
    /\ calls' = [calls EXCEPT ![c] = [@ EXCEPT !.at = "done"]]
    /\ UNCHANGED main_vars

\* two decode calls, their loop passes taken in any order
NextPar ==
    \/ /\ pc = "start"
       /\ \E c \in Callers, w \in ParWords, i1 \in BOOLEAN, src \in BOOLEAN :
             pdo2str_call(c, w, i1, src)
    \/ /\ pc = "start"
       /\ \E c \in Callers, w \in ParWords, ref \in ParRefs :
             rdo2str_call(c, w, ref)
    \/ \E c \in Callers : call_iter(c)
    \/ \E c \in Callers : call_break(c)

SpecPar == Init /\ [][NextPar]_vars

\* decoding of either kind of literal
NextOpt == NextPdo \/ NextRdo

SpecOpt == Init /\ [][NextOpt]_vars

-----------------------------------------------------------------------------
(* build_raw_pdo of the second program (src/src/lsupd.cpp)                 *)
(*                                                                         *)
(* Its getters dereference the iterator m.find(name) gives without         *)
(* comparing it with m.end(), so reading an attribute that is absent is    *)
(* undefined: ub is what that read yields when the run goes on, and the    *)
(* run may also stop there.                                                *)

\* the pdo_e of lsupd.cpp, which has one AVS enumerator
lsupd_pdo_e == {"pdo_null", "pdo_fixed", "pdo_variable", "pdo_battery",
                "apdo_pps", "apdo_avs"}

\* what a getter can return after it read past the end of the map
UbReads == {0, 1, 5000}

lsupd_get_millivolts(name, m, ub) ==
    IF name \notin DOMAIN m THEN ub
    ELSE IF sscanf_u(m[name]).conv = 1 THEN sscanf_u(m[name]).val ELSE 0

lsupd_get_milliamps(name, m, ub) ==
    IF name \notin DOMAIN m THEN ub
    ELSE IF sscanf_u(m[name]).conv = 1 THEN sscanf_u(m[name]).val ELSE 0

lsupd_get_milliwatts(name, m, ub) ==
    IF name \notin DOMAIN m THEN ub
    ELSE IF sscanf_u(m[name]).conv = 1 THEN sscanf_u(m[name]).val ELSE 0

lsupd_get_unitless(name, m, ub) ==
    IF name \notin DOMAIN m THEN ub
    ELSE IF sscanf_u(m[name]).conv = 1 THEN sscanf_u(m[name]).val ELSE 0

\* case pdo_e::pdo_fixed: the voltage and current fields
lsupd_fixed_base(src, m, ub) ==
    LET mv == lsupd_get_millivolts("voltage", m, ub)
        ma == lsupd_get_milliamps(IF src THEN "maximum_current"
                                  ELSE "operational_current", m, ub)
    IN  BitOr(Shl(BitAnd(mv \div 50, 1023), 0),
              Shl(BitAnd(ma \div 10, 1023), 10))

\* case pdo_e::pdo_fixed: the bits 23 to 29 of the PDO at index 1
lsupd_fixed_ind1(r0, src, m, ub) ==
    LET v1 == IF src
              THEN lsupd_get_unitless(
                       "unchunked_extended_messages_supported", m, ub)
              ELSE lsupd_get_unitless("fast_role_swap_current", m, ub)
        r1 == IF src THEN or_if(r0, v1, Shl(1, 24))
              ELSE or_if(r0, v1, Shl(BitAnd(v1, 3), 23))
        v2 == lsupd_get_unitless("dual_role_data", m, ub)
        r2 == or_if(r1, v2, Shl(1, 25))
        v3 == lsupd_get_unitless("usb_communication_capable", m, ub)
        r3 == or_if(r2, v3, Shl(1, 26))
        v4 == lsupd_get_unitless("unconstrained_power", m, ub)
        r4 == or_if(r3, v4, Shl(BitAnd(v4, 1), 27))
        v5 == IF src THEN lsupd_get_unitless("usb_suspend_supported", m, ub)
              ELSE lsupd_get_unitless("higher_capability", m, ub)
        r5 == or_if(r4, v5, Shl(BitAnd(v5, 1), 28))
        v6 == lsupd_get_unitless("dual_role_power", m, ub)
    IN  or_if(r5, v6, Shl(BitAnd(v6, 1), 29))

\* the two voltage fields that follow the low field of a Battery, Variable,
\* PPS or AVS word: steps of st mV, masks lo and hi, maximum at bit top
lsupd_min_max(r1, m, ub, st, lo, hi, lsb, top) ==
    LET r2 == BitOr(r1, Shl(BitAnd(
                  lsupd_get_millivolts("minimum_voltage", m, ub) \div st,
                  lo), lsb))
    IN  BitOr(r2, Shl(BitAnd(
                  lsupd_get_millivolts("maximum_voltage", m, ub) \div st,
                  hi), top))

\* the switch of build_raw_pdo on pdo_el_
lsupd_raw_pdo_switch(el, src, ind, m, ub) ==
    CASE el = "pdo_fixed" ->
            IF ind = 1
            THEN lsupd_fixed_ind1(lsupd_fixed_base(src, m, ub), src, m, ub)
            ELSE lsupd_fixed_base(src, m, ub)
      [] el = "pdo_battery" ->
            LET mw == lsupd_get_milliwatts(
                          IF src THEN "maximum_allowable_power"
                          ELSE "operational_power", m, ub)
            IN  lsupd_min_max(
                    BitOr(Shl(1, 30), Shl(BitAnd(mw \div 250, 1023), 0)),
                    m, ub, 50, 1023, 1023, 10, 20)
      [] el = "pdo_variable" ->
            LET ma == lsupd_get_milliamps(
                          IF src THEN "maximum_current"
                          ELSE "operational_current", m, ub)
            IN  lsupd_min_max(
                    BitOr(Shl(1, 31), Shl(BitAnd(ma \div 10, 1023), 0)),
                    m, ub, 50, 1023, 1023, 10, 20)
      [] el = "apdo_pps" ->
            LET ma == lsupd_get_milliamps("maximum_current", m, ub)
                r3 == lsupd_min_max(
                          BitOr(Shl(3, 30), Shl(BitAnd(ma \div 50, 127), 0)),
                          m, ub, 100, 255, 255, 8, 17)
                v == lsupd_get_unitless("pps_power_limited", m, ub)
            IN  IF src THEN or_if(r3, v, Shl(BitAnd(v, 1), 27)) ELSE r3
      [] el = "apdo_avs" ->
            LET mw == lsupd_get_milliwatts("pdp", m, ub)
                r3 == lsupd_min_max(
                          BitOr(BitOr(Shl(3, 30), Shl(1, 28)),
                                Shl(BitAnd(mw \div 1000, 255), 0)),
                          m, ub, 100, 255, 511, 8, 17)
                v == lsupd_get_unitless("peak_current", m, ub)
            IN  or_if(r3, v, Shl(BitAnd(v, 3), 26))
      [] OTHER -> {}

\* the attribute names the switch of build_raw_pdo looks up
lsupd_lookups(el, src, ind) ==
    CASE el = "pdo_fixed" ->
            {"voltage",
             IF src THEN "maximum_current" ELSE "operational_current"}
            \cup (IF ind # 1 THEN {}
                  ELSE {IF src THEN "unchunked_extended_messages_supported"
                        ELSE "fast_role_swap_current",
                        "dual_role_data", "usb_communication_capable",
                        "unconstrained_power",
                        IF src THEN "usb_suspend_supported"
                        ELSE "higher_capability",
                        "dual_role_power"})
      [] el = "pdo_battery" ->
            {IF src THEN "maximum_allowable_power" ELSE "operational_power",
             "minimum_voltage", "maximum_voltage"}
      [] el = "pdo_variable" ->
            {IF src THEN "maximum_current" ELSE "operational_current",
             "minimum_voltage", "maximum_voltage"}
      [] el = "apdo_pps" ->
            {"maximum_current", "minimum_voltage", "maximum_voltage"}
            \cup (IF src THEN {"pps_power_limited"} ELSE {})
      [] el = "apdo_avs" ->
            {"pdp", "minimum_voltage", "maximum_voltage", "peak_current"}
      [] OTHER -> {}

\* build_raw_pdo reads an absent attribute on this input
lsupd_reads_absent(el, src, ind, err, m) ==
    /\ ~err
    /\ DOMAIN m # {}
    /\ lsupd_lookups(el, src, ind) \ DOMAIN m # {}

\* build_raw_pdo: the value left in raw_pdo_; err is the error of
\* map_d_regu_files and m the map it filled
lsupd_build_raw_pdo(el, src, ind, err, m, ub) ==
    IF err THEN {}
    ELSE IF DOMAIN m = {} THEN {}
    ELSE lsupd_raw_pdo_switch(el, src, ind, m, ub)

\* the PDO directories populate_pdos of lsupd.cpp can meet
UpdInputs ==
    {[el |-> "pdo_fixed", m |-> x] :
        x \in FixedMaps \cup AttrVariants("pdo_fixed")
              \cup {FixedFlags @@ y : y \in FixedMaps}}
    \cup {[el |-> e, m |-> x] :
            e \in lsupd_pdo_e \ {"pdo_fixed"}, x \in {NoAttrs, OtherAttrs}}

\* populate_pdos of lsupd.cpp makes a pdo_elem for one PDO directory and,
\* under --long, calls build_raw_pdo on it
lsupd_populate_pdos(in, src, ind, err, ub) ==
    /\ pc = "start"
    /\ elem' = [pdo_el_ |-> in.el, is_source_caps_ |-> src, pdo_ind_ |-> ind,
                raw_pdo_ |-> lsupd_build_raw_pdo(in.el, src, ind, err,
                                                 in.m, ub),
                ascii_pdo_m_ |-> in.m]
    /\ ec' = err
    /\ pc' = "upd_built"
    /\ UNCHANGED <<op, calls, a_pdo, ind1, is_src, a_rdo, ref_pdo, k, do_fld_p,
                   fl_cont, out, stdout, res>>

\* the run stops in build_raw_pdo at the read of an absent attribute
lsupd_populate_pdos_fault(in, src, ind, err) ==
    /\ pc = "start"
    /\ lsupd_reads_absent(in.el, src, ind, err, in.m)
    /\ elem' = [pdo_el_ |-> in.el, is_source_caps_ |-> src, pdo_ind_ |-> ind,
                raw_pdo_ |-> {}, ascii_pdo_m_ |-> in.m]
    /\ ec' = err
    /\ pc' = "upd_fault"
    /\ UNCHANGED <<op, calls, a_pdo, ind1, is_src, a_rdo, ref_pdo, k, do_fld_p,
                   fl_cont, out, stdout, res>>

\* a PDO directory is encoded by lsupd
NextUpd ==
    \/ /\ pc = "start"
       /\ \E in \in UpdInputs, src \in BOOLEAN, ind \in 1 .. MaxInd,
             err \in BOOLEAN, ub \in UbReads :
                lsupd_populate_pdos(in, src, ind, err, ub)
    \/ /\ pc = "start"
       /\ \E in \in UpdInputs, src \in BOOLEAN, ind \in 1 .. MaxInd,
             err \in BOOLEAN : lsupd_populate_pdos_fault(in, src, ind, err)

SpecUpd == Init /\ [][NextUpd]_vars

Next ==
    \/ NextPdo \/ NextRdo \/ NextEnc \/ NextScale \/ NextMain \/ NextPar
    \/ NextUpd

Spec == Init /\ [][Next]_vars

-----------------------------------------------------------------------------
(* Reading the output *)

\* the field names of the lines, as a set
NameSet(lines) == {lines[i].name : i \in DOMAIN lines}

\* the field names of the lines, in order
NameSeq(lines) == [i \in DOMAIN lines |-> lines[i].name]

\* a line named n with value text v is in the output
HasLine(lines, n, v) ==
    \E i \in DOMAIN lines : lines[i].name = n /\ lines[i].val = v

\* the hundredths a value text "W.FF" shows, -1 when it is not of that shape
Hundredths(t) ==
    IF /\ Len(t) >= 4
       /\ t[Len(t) - 2] = "."
       /\ \A i \in (1 .. Len(t)) \ {Len(t) - 2} : IsDigit(t[i])
    THEN 100 * scan_digits(SubSeq(t, 1, Len(t) - 3), 0)
         + 10 * DigitVal(t[Len(t) - 1]) + DigitVal(t[Len(t)])
    ELSE -1

\* the word has the selector bits 31..30 = 00
IsFixedWord(w) == 31 \notin w /\ 30 \notin w

-----------------------------------------------------------------------------
(* Claims *)

\* C1: a Fixed PDO built from an attribute map whose voltage is v mV, v a
\* multiple of 50 in 0..51150, and decoded for the same role and index
\* shows a voltage field of v / 10 hundredths of a volt.
C1_VoltageRoundTrip ==
    (/\ pc = "ret"
     /\ elem.pdo_el_ = "pdo_fixed"
     /\ "voltage" \in DOMAIN elem.ascii_pdo_m_
     /\ ~ec)
    => \A i \in 0 .. 1023 :
          elem.ascii_pdo_m_["voltage"] = mV(50 * i)
          => /\ Cardinality({j \in DOMAIN out.lines :
                                out.lines[j].name = "voltage"}) = 1
             /\ \A j \in DOMAIN out.lines :
                   out.lines[j].name = "voltage"
                   => Hundredths(out.lines[j].val) = 5 * i

\* C1 witness: 20000 mV at object index 1 of a source is shown as 20.00
C1_Witness ==
    /\ pc = "ret"
    /\ elem.pdo_el_ = "pdo_fixed"
    /\ ~ec
    /\ elem.pdo_ind_ = 1
    /\ elem.is_source_caps_
    /\ "voltage" \in DOMAIN elem.ascii_pdo_m_
    /\ elem.ascii_pdo_m_["voltage"] = mV(20000)
    /\ HasLine(out.lines, "voltage", <<"2", "0", ".", "0", "0">>)

C3_NullWordNotFixed ==
    (pc = "ret" /\ a_pdo = {} /\ out.head # <<>>)
    => ~(/\ out.head[1] = "Fixed"
         /\ HasLine(out.lines, "voltage", <<"0", ".", "0", "0">>)
         /\ \/ HasLine(out.lines, "maximum_current", <<"0", ".", "0", "0">>)
            \/ HasLine(out.lines, "operational_current",
                       <<"0", ".", "0", "0">>))

\* C4: for a word with bits 31..30 = 11 the scan starts on the PPS block
\* exactly when bits 29..28 are 00, and on the AVS block when they are 01
\* (EPR AVS) or 10 (SPR AVS).
C4_AugmentedByBits29_28 ==
    (pc = "pdo2str" /\ k = 0 /\ 31 \in a_pdo /\ 30 \in a_pdo)
    => /\ (do_fld_p = 21) <=> (29 \notin a_pdo /\ 28 \notin a_pdo)
       /\ ((29 \in a_pdo) # (28 \in a_pdo)) => do_fld_p = 26

\* C5: a Fixed word decoded at object index 1 shows unconstrained_power
\* (bit 27) for either role, usb_suspend_supported exactly for a source and
\* higher_capability exactly for a sink, both with the value of bit 28.
C5_Index1RoleFields ==
    (pc = "ret" /\ out.head # <<>> /\ out.head[1] = "Fixed" /\ ind1)
    => LET bit(n) == IF n \in a_pdo THEN <<"1">> ELSE <<"0">>
           names == NameSet(out.lines)
       IN  /\ HasLine(out.lines, "unconstrained_power", bit(27))
           /\ ("usb_suspend_supported" \in names) <=> is_src
           /\ ("higher_capability" \in names) <=> ~is_src
           /\ is_src => HasLine(out.lines, "usb_suspend_supported", bit(28))
           /\ ~is_src => HasLine(out.lines, "higher_capability", bit(28))

\* C5 witness: a sink PDO at index 1 with bits 27 and 28 set
C5_Witness ==
    /\ pc = "ret"
    /\ out.head # <<>>
    /\ out.head[1] = "Fixed"
    /\ ind1
    /\ ~is_src
    /\ 27 \in a_pdo
    /\ 28 \in a_pdo
    /\ HasLine(out.lines, "higher_capability", <<"1">>)
    /\ HasLine(out.lines, "unconstrained_power", <<"1">>)

\* field names of the block for all Fixed PDOs (index 9..12)
FixedBaseNames ==
    {"peak_current", "voltage", "maximum_current", "operational_current"}

\* field names of the block for Fixed PDOs at object position 1 (index 0..8)
FixedExtNames ==
    {"dual_role_power", "higher_capability", "usb_suspend_supported",
     "unconstrained_power", "usb_communication_capable", "dual_role_data",
     "unchunked_message_supported", "epr_mode_supported", "fast_role_swap"}

\* a decode of a Fixed word at object index 1 has returned
FixedInd1Done ==
    pc = "ret" /\ out.head # <<>> /\ out.head[1] = "Fixed" /\ ind1

\* C6 as stated: in the output for a Fixed PDO at object index 1 every
\* field of the base block comes before every field of the index-1 block.
C6_BaseBeforeExt ==
    FixedInd1Done
    => \A i, j \in DOMAIN out.lines :
          (/\ out.lines[i].name \in FixedBaseNames
           /\ out.lines[j].name \in FixedExtNames) => i < j

\* C6 amended: the output for a Fixed PDO at object index 1 holds fields of
\* both blocks, and every field of the index-1 block comes before every
\* field of the base block.
C6_ExtBeforeBase ==
    FixedInd1Done
    => /\ "dual_role_power" \in NameSet(out.lines)
       /\ "voltage" \in NameSet(out.lines)
       /\ \A i, j \in DOMAIN out.lines :
             (/\ out.lines[i].name \in FixedExtNames
              /\ out.lines[j].name \in FixedBaseNames) => i < j

\* C6 witness: a source PDO at index 1 whose first line is dual_role_power
\* and whose last line is maximum_current
C6_Witness ==
    /\ FixedInd1Done
    /\ is_src
    /\ Len(out.lines) = 10
    /\ out.lines[1].name = "dual_role_power"
    /\ out.lines[8].name = "peak_current"
    /\ out.lines[10].name = "maximum_current"

\* C7: a Fixed word decoded with the index flag clear shows exactly the base
\* fields of the role; with the flag set it shows those fields and the
\* index-1 fields of the role, each once.
C7_BaseAlwaysExtAtInd1 ==
    (pc = "ret" /\ out.head # <<>> /\ out.head[1] = "Fixed")
    => LET base == IF is_src
                   THEN {"peak_current", "voltage", "maximum_current"}
                   ELSE {"voltage", "operational_current"}
           ext == IF is_src
                  THEN {"dual_role_power", "usb_suspend_supported",
                        "unconstrained_power", "usb_communication_capable",
                        "dual_role_data", "unchunked_message_supported",
                        "epr_mode_supported"}
                  ELSE {"dual_role_power", "higher_capability",
                        "unconstrained_power", "usb_communication_capable",
                        "dual_role_data", "fast_role_swap"}
           names == NameSet(out.lines)
       IN  /\ Len(out.lines) = Cardinality(names)
           /\ ~ind1 => names = base
           /\ ind1 => names = base \cup ext

\* C7 witness: a sink PDO decoded with the index flag clear shows two fields
C7_Witness ==
    /\ pc = "ret"
    /\ out.head # <<>>
    /\ out.head[1] = "Fixed"
    /\ ~ind1
    /\ ~is_src
    /\ NameSeq(out.lines) = <<"voltage", "operational_current">>

\* the references whose RDO has a giveback branch
GivebackRefs == {"pdo_fixed", "pdo_variable", "pdo_battery"}

\* C8 as stated: for a Fixed reference, giveback set shows
\* maximum_operating_current and not minimum_operating_current, and giveback
\* clear shows minimum_operating_current and not maximum_operating_current.
C8_GivebackShowsMaximum ==
    (pc = "ret" /\ ref_pdo = "pdo_fixed")
    => LET names == NameSet(out.lines)
       IN  IF 27 \in a_rdo
           THEN /\ "maximum_operating_current" \in names
                /\ "minimum_operating_current" \notin names
           ELSE /\ "minimum_operating_current" \in names
                /\ "maximum_operating_current" \notin names

\* C8 amended: for a Fixed reference, giveback set shows
\* minimum_operating_current and not maximum_operating_current, and giveback
\* clear shows maximum_operating_current and not minimum_operating_current.
C8_GivebackShowsMinimum ==
    (pc = "ret" /\ ref_pdo = "pdo_fixed")
    => LET names == NameSet(out.lines)
       IN  IF 27 \in a_rdo
           THEN /\ "minimum_operating_current" \in names
                /\ "maximum_operating_current" \notin names
           ELSE /\ "maximum_operating_current" \in names
                /\ "minimum_operating_current" \notin names

\* C8 witness: a Fixed reference RDO with giveback set has been decoded
C8_Witness ==
    /\ pc = "ret"
    /\ ref_pdo = "pdo_fixed"
    /\ 27 \in a_rdo
    /\ "minimum_operating_current" \in NameSet(out.lines)

\* the rows of the RDO block of a reference with a giveback branch
GivebackBlock(ref) == IF ref = "pdo_battery" THEN 40 .. 49 ELSE 30 .. 39

\* C9: for a Fixed, Variable or Battery reference a row flagged P_IT_FL_SRC
\* is shown exactly when bit 27 is set, a row flagged P_IT_FL_SINK exactly
\* when bit 27 is clear, and a row with neither flag always; with bit 27 set
\* this is the reverse of the filter pdo2str applies for a sink.
C9_GivebackPolarity ==
    (pc = "ret" /\ ref_pdo \in GivebackRefs)
    => \A i \in GivebackBlock(ref_pdo) :
          LET d == pdo_part_at(i)
              shown == pdo_str_at(d.nam_str_off) \in NameSet(out.lines)
              srcfl == Tst(d.num_bits_typ, P_IT_FL_SRC)
              snkfl == Tst(d.num_bits_typ, P_IT_FL_SINK)
          IN  /\ srcfl => (shown <=> 27 \in a_rdo)
              /\ snkfl => (shown <=> 27 \notin a_rdo)
              /\ (~srcfl /\ ~snkfl) => shown
              /\ (27 \in a_rdo /\ (srcfl \/ snkfl))
                 => (shown <=> pdo2str_skip(d.num_bits_typ, FALSE))

\* C9 witness: a Battery reference RDO with giveback clear shows
\* maximum_operating_power (flagged P_IT_FL_SINK)
C9_Witness ==
    /\ pc = "ret"
    /\ ref_pdo = "pdo_battery"
    /\ 27 \notin a_rdo
    /\ "maximum_operating_power" \in NameSet(out.lines)
    /\ "minimum_operating_power" \notin NameSet(out.lines)

\* the word w with bit 27 inverted
Flip27(w) == IF 27 \in w THEN w \ {27} ELSE w \cup {27}

\* the field names of the rows of a giveback block, all or by flag
BlockNames(ref) ==
    {pdo_str_at(pdo_part_at(i).nam_str_off) : i \in GivebackBlock(ref)}

FlaggedNames(ref) ==
    {pdo_str_at(pdo_part_at(i).nam_str_off) :
        i \in {j \in GivebackBlock(ref) :
                 \/ Tst(pdo_part_at(j).num_bits_typ, P_IT_FL_SRC)
                 \/ Tst(pdo_part_at(j).num_bits_typ, P_IT_FL_SINK)}}

\* C10 as stated: the names shown for an RDO and for the same RDO with bit
\* 27 inverted are disjoint and together are the names of the block.
C10_BranchesDisjoint ==
    (pc = "ret" /\ ref_pdo \in GivebackRefs)
    => LET mine == NameSet(out.lines)
           other == NameSet(rdo2str(Flip27(a_rdo), ref_pdo).lines)
       IN  /\ mine \cap other = {}
           /\ mine \cup other = BlockNames(ref_pdo)

\* C10 amended: the names shown for an RDO and for the same RDO with bit 27
\* inverted together are the names of the block; the names shown in both are
\* those of the rows without a role flag, and each flagged row is shown in
\* exactly one of the two.
C10_BranchesShareUnflagged ==
    (pc = "ret" /\ ref_pdo \in GivebackRefs)
    => LET mine == NameSet(out.lines)
           other == NameSet(rdo2str(Flip27(a_rdo), ref_pdo).lines)
       IN  /\ mine \cup other = BlockNames(ref_pdo)
           /\ mine \cap other = BlockNames(ref_pdo) \ FlaggedNames(ref_pdo)
           /\ Cardinality(mine \ other) = 1
           /\ Cardinality(other \ mine) = 1
           /\ Len(out.lines) = Cardinality(mine)

\* C10 witness: a Variable reference RDO decoded to nine fields
C10_Witness ==
    /\ pc = "ret"
    /\ ref_pdo = "pdo_variable"
    /\ Len(out.lines) = 9
    /\ "giveback_flag" \in NameSet(out.lines)

-----------------------------------------------------------------------------
(* Claims C11 to C20 *)

\* the REF letter of the --rdo= option, in upper case
RefLetter == toupper(do_rdo_opt_letter(op.rdo_opt_p))

\* the field names of a range of rows of pdo_part_a
RowNames(rows) == {pdo_str_at(pdo_part_at(i).nam_str_off) : i \in rows}

\* an --rdo= option has been decoded
RdoDecoded == pc = "ret" /\ res = 0 /\ op.rdo_opt_p # nullptr

\* C11 as stated: the letters F, B and V are all decoded with the Fixed and
\* Variable block (the one with operating_current), P with the PPS block as
\* apdo_pps, A and E with the AVS block as apdo_epr_avs, S with the AVS block
\* as apdo_spr_avs.
C11_BatteryAsFixedOrVariable ==
    RdoDecoded
    => LET names == NameSet(out.lines)
       IN  /\ RefLetter \in {"F", "B", "V"}
              => /\ "operating_current" \in names
                 /\ names \subseteq RowNames(30 .. 39)
           /\ RefLetter = "P"
              => ref_pdo = "apdo_pps" /\ names = RowNames(50 .. 57)
           /\ RefLetter \in {"A", "E"}
              => ref_pdo = "apdo_epr_avs" /\ names = RowNames(58 .. 65)
           /\ RefLetter = "S"
              => ref_pdo = "apdo_spr_avs" /\ names = RowNames(58 .. 65)

\* C11 amended: F and V are decoded with the Fixed and Variable block (the
\* one with operating_current), B with the Battery block (the one with
\* operating_power), P with the PPS block as apdo_pps, A and E with the AVS
\* block as apdo_epr_avs, S with the AVS block as apdo_spr_avs.
C11_RefLetterBlocks ==
    RdoDecoded
    => LET names == NameSet(out.lines)
       IN  /\ RefLetter \in {"F", "V"}
              => /\ ref_pdo = (IF RefLetter = "F" THEN "pdo_fixed"
                               ELSE "pdo_variable")
                 /\ "operating_current" \in names
                 /\ names \subseteq RowNames(30 .. 39)
           /\ RefLetter = "B"
              => /\ ref_pdo = "pdo_battery"
                 /\ "operating_power" \in names
                 /\ "operating_current" \notin names
                 /\ names \subseteq RowNames(40 .. 49)
           /\ RefLetter = "P"
              => ref_pdo = "apdo_pps" /\ names = RowNames(50 .. 57)
           /\ RefLetter \in {"A", "E"}
              => ref_pdo = "apdo_epr_avs" /\ names = RowNames(58 .. 65)
           /\ RefLetter = "S"
              => ref_pdo = "apdo_spr_avs" /\ names = RowNames(58 .. 65)

\* C11 witness: an RDO given with REF letter B has been decoded to the
\* fields of the Battery block
C11_Witness ==
    /\ RdoDecoded
    /\ RefLetter = "B"
    /\ "operating_power" \in NameSet(out.lines)

\* the field of the row under do_fld_p, read from the word that was shown
ShownRaw ==
    Field(IF pc = "pdo_field" THEN a_pdo ELSE a_rdo,
          pdo_part_at(do_fld_p).low_pdo_bit, Width(do_fld_p))

\* v hundredths written as whole part, point, two digits
Centi(v) ==
    to_string(v \div 100)
    \o <<".", DigitChars[((v % 100) \div 10) + 1], DigitChars[(v % 10) + 1]>>

\* C12: for every row with a multiplier other than 0 and 0xff and every raw
\* value of its field, the value shown is the exact product raw * mult as
\* hundredths (whole part, point, two zero-padded digits), and the product
\* fits 16 bits; raw 100 in a 10-bit field with multiplier 5 shows 5.00.
C12_LinearMilli ==
    (pc \in {"pdo_field", "rdo_field"} /\ pdo_part_at(do_fld_p).mult # 255)
    => LET m == pdo_part_at(do_fld_p).mult
       IN  /\ ShownRaw * m < U16
           /\ out.lines[1].val = Centi(ShownRaw * m)
           /\ (Width(do_fld_p) = 10 /\ ShownRaw = 100 /\ m = 5)
              => out.lines[1].val = <<"5", ".", "0", "0">>

\* C12 witness: the voltage row of a Fixed PDO (10 bits, multiplier 5) has
\* been shown for raw 100
C12_Witness ==
    /\ pc = "pdo_field"
    /\ Width(do_fld_p) = 10
    /\ pdo_part_at(do_fld_p).mult = 5
    /\ ShownRaw = 100
    /\ out.lines[1].val = <<"5", ".", "0", "0">>

\* the output_voltage rows of the PPS and of the AVS RDO block
PpsRdoVoltRow == 56
AvsRdoVoltRow == 64

SupportedRefs == {"F", "B", "V", "P", "A", "E", "S"}

\* main has returned from a run with --rdo= alone whose literal passed the
\* checks and whose REF letter is none of the supported ones
UnsupportedRefDone ==
    /\ pc = "ret"
    /\ op.pdo_opt_p = nullptr
    /\ op.rdo_opt_p # nullptr
    /\ ~do_rdo_opt_bad(op.rdo_opt_p)
    /\ RefLetter \notin SupportedRefs

\* main has returned from a run with --pdo-snk= or --pdo-src= alone
PdoAloneDone ==
    pc = "ret" /\ op.pdo_opt_p # nullptr /\ op.rdo_opt_p = nullptr

\* C14 as stated: an RDO request with an unsupported reference gives no
\* fields and status 0, and a PDO decode of any word gives status 0.
C14_UnsupportedRefSoft ==
    /\ UnsupportedRefDone => (res = 0 /\ out.lines = <<>>)
    /\ PdoAloneDone => res = 0

\* C14 amended: an --rdo= request with an unsupported or missing REF letter
\* gives no output at all and status 1, rdo2str is not entered; rdo2str
\* itself, given a reference that is none of the six variants, gives its bad
\* type line and no fields; a PDO decode of any word gives status 0 and
\* prints its string.
C14_UnsupportedRefHard ==
    /\ UnsupportedRefDone
       => /\ res = 1
          /\ out = NoOut
          /\ stdout = <<>>
          /\ ref_pdo = "pdo_null"
    /\ pc = "rdo2str"
       => /\ ref_pdo # "pdo_null"
          /\ rdo2str(a_rdo, "pdo_null")
             = [head |-> <<"RDO refers to bad PDO type\n">>, lines |-> <<>>]
    /\ PdoAloneDone => (res = 0 /\ stdout = <<out>> /\ out.head # <<>>)

\* C14 witness: --rdo= with a literal that fits and REF letter X has returned
\* status 1
C14_Witness ==
    /\ UnsupportedRefDone
    /\ RefLetter = "X"
    /\ res = 1

\* the attribute names build_raw_pdo looks up
EncAttrNames == DOMAIN FullAttrs("pdo_fixed") \cup DOMAIN OtherAttrs

\* attribute a is missing from m or its text does not convert
AbsentOrBad(m, a) == a \notin DOMAIN m \/ sscanf_u(m[a]).conv # 1

\* build_raw_pdo has run on a directory that was read without error
Built == pc = "built" /\ ~ec

\* the word build_raw_pdo gives for map m, for the type, role and index of
\* the pdo_elem of the state
RawOf(m) ==
    build_raw_pdo(elem.pdo_el_, elem.is_source_caps_, elem.pdo_ind_, FALSE, m)

\* C15 as stated: for every type, role, index and map, an attribute that is
\* missing or does not convert gives the word that the map with that
\* attribute present with value 0 gives.
C15_AbsentAsZero ==
    Built
    => \A a \in EncAttrNames :
          AbsentOrBad(elem.ascii_pdo_m_, a)
          => elem.raw_pdo_ = RawOf(WithText(elem.ascii_pdo_m_, a, <<"0">>))

\* C15 amended: the same for every map with at least one entry, where also
\* the word is the OR of the word without the attribute and the word of
\* the attribute alone, so that no attribute disturbs the bits of another;
\* a map with no entry gives the word 0 whatever the type.
C15_AbsentAsZeroNonEmpty ==
    Built
    => LET m == elem.ascii_pdo_m_
       IN  /\ DOMAIN m = {} => elem.raw_pdo_ = {}
           /\ DOMAIN m # {}
              => \A a \in EncAttrNames :
                    /\ AbsentOrBad(m, a)
                       => elem.raw_pdo_ = RawOf(WithText(m, a, <<"0">>))
                    /\ (a \in DOMAIN m /\ DOMAIN m # {a})
                       => elem.raw_pdo_
                          = BitOr(RawOf(Without(m, a)), RawOf(Only(m, a)))

\* C15 witness: a Battery directory without minimum_voltage has been
\* encoded with its other fields set
C15_Witness ==
    /\ Built
    /\ elem.pdo_el_ = "pdo_battery"
    /\ DOMAIN elem.ascii_pdo_m_ = DOMAIN OtherAttrs \ {"minimum_voltage"}
    /\ Field(elem.raw_pdo_, 10, 10) = 0
    /\ Field(elem.raw_pdo_, 20, 10) = 400
    /\ Field(elem.raw_pdo_, 30, 2) = 1

\* the bits 31..30 of the word of the pdo_elem
Selector == Field(elem.raw_pdo_, 30, 2)

\* C16 as stated: for every attribute map, one with no entries included, a
\* Battery PDO has bits 31..30 = 01 and a Variable PDO has 10.
C16_SelectorAnyMap ==
    Built
    => /\ elem.pdo_el_ = "pdo_battery" => Selector = 1
       /\ elem.pdo_el_ = "pdo_variable" => Selector = 2

\* C16 amended: for every attribute map with at least one entry, whatever
\* the entries hold, a Battery PDO has bits 31..30 = 01 and a Variable PDO
\* has 10; for the map with no entries the word is 0.
C16_SelectorNonEmptyMap ==
    Built
    => /\ (elem.pdo_el_ = "pdo_battery" /\ DOMAIN elem.ascii_pdo_m_ # {})
          => Selector = 1
       /\ (elem.pdo_el_ = "pdo_variable" /\ DOMAIN elem.ascii_pdo_m_ # {})
          => Selector = 2
       /\ (elem.pdo_el_ \in {"pdo_battery", "pdo_variable"}
           /\ DOMAIN elem.ascii_pdo_m_ = {})
          => elem.raw_pdo_ = {}

\* C16 witness: a Variable directory whose only file holds no number has
\* been encoded as the selector bits alone
C16_Witness ==
    /\ Built
    /\ elem.pdo_el_ = "pdo_variable"
    /\ elem.ascii_pdo_m_ = WithText(NoAttrs, "pdp", <<"x">>)
    /\ elem.raw_pdo_ = {31}

\* the number an attribute of the map of the pdo_elem holds, 0 when it is
\* missing or does not convert
AttrNum(a) ==
    IF AbsentOrBad(elem.ascii_pdo_m_, a) THEN 0
    ELSE sscanf_u(elem.ascii_pdo_m_[a]).val

\* C17: for an SPR AVS and for an EPR AVS directory with at least one
\* attribute the word has bits 31..30 = 11, the AVS bit of bits 29..28 set
\* (bit 29 for SPR, bit 28 for EPR), pdp in 1 W steps in bits 7..0, the
\* minimum voltage in 100 mV steps in bits 15..8 and the maximum voltage in
\* 100 mV steps in bits 25..17.
C17_AvsEncoding ==
    (Built /\ elem.pdo_el_ \in {"apdo_spr_avs", "apdo_epr_avs"}
     /\ DOMAIN elem.ascii_pdo_m_ # {})
    => /\ Field(elem.raw_pdo_, 30, 2) = 3
       /\ Field(elem.raw_pdo_, 28, 2)
          = (IF elem.pdo_el_ = "apdo_spr_avs" THEN 2 ELSE 1)
       /\ Field(elem.raw_pdo_, 0, 8) = (AttrNum("pdp") \div 1000) % 256
       /\ Field(elem.raw_pdo_, 8, 8)
          = (AttrNum("minimum_voltage") \div 100) % 256
       /\ Field(elem.raw_pdo_, 17, 9)
          = (AttrNum("maximum_voltage") \div 100) % 512

\* C18: peak_current of an AVS PDO (bits 27..26) and pps_power_limited of
\* a PPS PDO (bit 27) are set from the map for a source only; for a sink
\* these bits are 0 whatever the map holds.
C18_SourceOnlyBits ==
    (Built /\ DOMAIN elem.ascii_pdo_m_ # {})
    => /\ (elem.pdo_el_ \in {"apdo_spr_avs", "apdo_epr_avs"}
           /\ ~elem.is_source_caps_)
          => Field(elem.raw_pdo_, 26, 2) = 0
       /\ (elem.pdo_el_ = "apdo_epr_avs" /\ elem.is_source_caps_)
          => Field(elem.raw_pdo_, 26, 2) = AttrNum("peak_current") % 4
       /\ elem.pdo_el_ = "apdo_pps"
          => Field(elem.raw_pdo_, 27, 1)
             = (IF elem.is_source_caps_ THEN AttrNum("pps_power_limited") % 2
                ELSE 0)

\* the LIT part of an option argument: the text in front of the first comma
LitPart(t) ==
    IF strpbrk(t, {","}) = 0 THEN t ELSE SubSeq(t, 1, strpbrk(t, {","}) - 1)

\* LIT is written as a decimal number: digits only
IsDecLiteral(l) ==
    l # <<>> /\ \A i \in 1 .. Len(l) : digit_of(l[i], 10) >= 0

\* LIT is written as a hexadecimal number: 0x or 0X, then hex digits only
IsHexLiteral(l) ==
    /\ Len(l) >= 3
    /\ l[1] = "0"
    /\ l[2] \in {"x", "X"}
    /\ \A i \in 3 .. Len(l) : digit_of(l[i], 16) >= 0

RECURSIVE LitSum(_, _, _, _)
\* the number the digits l denote in the base, exact in w bits
LitSum(l, base, acc, w) ==
    IF l = <<>> THEN acc
    ELSE LET v == AddBits(MulBits(acc, NumBits(base), w),
                          NumBits(digit_of(Head(l), base)), w)
         IN  IF v = {} THEN LitSum(Tail(l), base, {}, w)
             ELSE LitSum(Tail(l), base, v, w)

\* the number a decimal or hexadecimal LIT denotes
LitValue(l) ==
    IF IsHexLiteral(l) THEN LitSum(SubSeq(l, 3, Len(l)), 16, {}, 4 * Len(l) + 4)
    ELSE LitSum(l, 10, {}, 4 * Len(l) + 4)

\* LIT denotes a number in [0, 2^32 - 1]
LitInRange(l) ==
    /\ IsDecLiteral(l) \/ IsHexLiteral(l)
    /\ \A i \in LitValue(l) : i < 32

\* LIT is no number, or denotes a number greater than 2^32 - 1
LitInvalid(l) ==
    \/ l \in BadLiterals
    \/ /\ IsDecLiteral(l) \/ IsHexLiteral(l)
       /\ \E i \in LitValue(l) : i >= 32

\* the IND part of a PDO option is absent or a number
IndGiven(t) ==
    after_comma(t) = nullptr \/ IsDecLiteral(after_comma(t))

\* C19: a literal that is no number or is greater than 2^32 - 1 makes the
\* operation return a non-zero status without entering pdo2str or rdo2str,
\* and every literal in [0, 2^32 - 1] (with a usable IND or REF) is accepted
\* and decoded as the word it denotes.
C19_LiteralRange ==
    /\ (pc = "pdo2str" /\ op.pdo_opt_p # nullptr)
       => ~LitInvalid(LitPart(op.pdo_opt_p))
    /\ (pc = "rdo2str" /\ op.rdo_opt_p # nullptr)
       => ~LitInvalid(LitPart(op.rdo_opt_p))
    /\ (pc = "ret" /\ op.pdo_opt_p # nullptr
        /\ LitInvalid(LitPart(op.pdo_opt_p)))
       => (res # 0 /\ stdout = <<>>)
    /\ (pc = "ret" /\ op.pdo_opt_p = nullptr /\ op.rdo_opt_p # nullptr
        /\ LitInvalid(LitPart(op.rdo_opt_p)))
       => (res # 0 /\ stdout = <<>>)
    /\ (PdoAloneDone /\ LitInRange(LitPart(op.pdo_opt_p))
        /\ IndGiven(op.pdo_opt_p))
       => /\ res = 0
          /\ a_pdo = LitValue(LitPart(op.pdo_opt_p))
          /\ stdout = <<pdo2str(a_pdo, ind1, is_src)>>
    /\ (pc = "ret" /\ op.pdo_opt_p = nullptr /\ op.rdo_opt_p # nullptr
        /\ LitInRange(LitPart(op.rdo_opt_p)) /\ RefLetter \in SupportedRefs)
       => /\ res = 0
          /\ a_rdo = LitValue(LitPart(op.rdo_opt_p))
          /\ stdout = <<rdo2str(a_rdo, ref_pdo)>>

\* C19 for the literals of at most MaxLb characters
C19_ShortLiteralRange ==
    (\A t \in {op.pdo_opt_p, op.rdo_opt_p} :
        t = nullptr \/ Len(LitPart(t)) <= MaxLb)
    => C19_LiteralRange

\* main has returned from a run with --pdo-snk= or --pdo-src= and --rdo=
BothDone ==
    pc = "ret" /\ op.pdo_opt_p # nullptr /\ op.rdo_opt_p # nullptr

\* the --rdo= argument is one do_rdo_opt decodes
RdoArgGood ==
    ~do_rdo_opt_bad(op.rdo_opt_p) /\ RefLetter \in SupportedRefs

-----------------------------------------------------------------------------
(* Claims C21 to C30 *)

\* what the decoder of call l gives when nothing else runs
Alone(l) ==
    IF l.fn = "pdo2str" THEN pdo2str(l.w, l.i1, l.src) ELSE rdo2str(l.w, l.ref)

\* C21: of two decode calls whose loop passes are interleaved in any order,
\* each has at every moment written the heading and the first fields of the
\* output it gives when run alone, and on return has written exactly that
\* output.
C21_CallsIndependent ==
    \A c \in Callers :
        calls[c].at # "idle"
        => LET l == calls[c]
               a == Alone(l)
           IN  /\ l.out.head = a.head
               /\ Len(l.out.lines) <= Len(a.lines)
               /\ l.out.lines = SubSeq(a.lines, 1, Len(l.out.lines))
               /\ l.at = "done" => l.out = a

\* C21 witness: a pdo2str call of a Fixed PDO at index 1 has passed the
\* continue row and is inside the next block while an rdo2str call is in the
\* middle of its block
C21_Witness ==
    /\ calls[1].fn = "pdo2str"
    /\ calls[1].at = "loop"
    /\ calls[1].p = 10
    /\ calls[2].fn = "rdo2str"
    /\ calls[2].at = "loop"
    /\ calls[2].k = 5

\* row i starts a block, or is the sentinel row
IsStart(i) ==
    \/ pdo_part_at(i).num_bits_typ = 0
    \/ Tst(pdo_part_at(i).num_bits_typ, P_IT_FL_START)

\* the first block start (or the sentinel) after row i
NextStart(i) ==
    CHOOSE j \in (i + 1) .. 66 :
        IsStart(j) /\ \A m \in (i + 1) .. (j - 1) : ~IsStart(m)

\* the last row of the block that starts at row i carries P_IT_FL_CONT
LastHasCont(i) ==
    Tst(pdo_part_at(NextStart(i) - 1).num_bits_typ, P_IT_FL_CONT)

\* the row the scan of the finished pdo2str call started at
PdoStart == pdo2str_start(a_pdo, ind1)

\* C22 as stated: when the last descriptor of the block pdo2str starts in
\* carries ContinueGroup, the scan visits one descriptor beyond the block
\* boundary and stops.
C22_OneExtraDescriptor ==
    (PdoAloneDone /\ res = 0 /\ LastHasCont(PdoStart))
    => do_fld_p = NextStart(PdoStart) + 1

\* C22 amended: when the last descriptor of the block pdo2str starts in
\* carries ContinueGroup, the scan passes the GroupStart descriptor of the
\* next block, visits every descriptor of that block and stops at the
\* GroupStart descriptor after it: for a Fixed PDO at object index 1 it
\* visits rows 0 to 12, four of them beyond the boundary at row 9, and stops
\* at row 13.  A block whose last descriptor carries no ContinueGroup is left
\* at the next GroupStart descriptor.
C22_OneExtraBlock ==
    (PdoAloneDone /\ res = 0)
    => /\ k = do_fld_p - PdoStart
       /\ do_fld_p = IF LastHasCont(PdoStart)
                     THEN NextStart(NextStart(PdoStart))
                     ELSE NextStart(PdoStart)
       /\ LastHasCont(PdoStart)
          => /\ PdoStart = 0
             /\ NextStart(PdoStart) = 9
             /\ do_fld_p = 13
             /\ ~fl_cont

\* C22 witness: the scan of a Fixed PDO at object index 1 has stopped at row
\* 13 after 13 passes
C22_Witness ==
    /\ PdoAloneDone
    /\ res = 0
    /\ IsFixedWord(a_pdo)
    /\ ind1
    /\ do_fld_p = 13
    /\ k = 13

\* the scan stops at row j when it gets there after at least one pass: the
\* sentinel, or a GroupStart row whose preceding row carries no ContinueGroup
StopsAt(j) ==
    \/ pdo_part_at(j).num_bits_typ = 0
    \/ /\ Tst(pdo_part_at(j).num_bits_typ, P_IT_FL_START)
       /\ ~Tst(pdo_part_at(j - 1).num_bits_typ, P_IT_FL_CONT)

\* the first row after row i the scan stops at
StopRow(i) ==
    CHOOSE j \in (i + 1) .. 66 :
        StopsAt(j) /\ \A m \in (i + 1) .. (j - 1) : ~StopsAt(m)

\* the row the scan of the current decoder started at
ScanStart ==
    IF op.pdo_opt_p # nullptr THEN PdoStart ELSE rdo2str_switch(ref_pdo).ind

\* C23: the scan of pdo2str and of rdo2str leaves the loop exactly at the
\* first row after its start that is the sentinel or carries GroupStart
\* while the row before it in the table carries no ContinueGroup; the
\* continue flag is that of the preceding table row whether or not that row
\* was skipped, and is cleared by the row after it.  A scan started at row 0
\* stops at row 13, a scan started at any other block start stops at the next
\* block start.
C23_BlockBoundary ==
    /\ pc \in {"pdo2str", "rdo2str"}
       => /\ k = do_fld_p - ScanStart
          /\ do_fld_p <= StopRow(ScanStart)
          /\ fl_cont <=> (k > 0 /\ Tst(pdo_part_at(do_fld_p - 1).num_bits_typ,
                                       P_IT_FL_CONT))
          /\ scan_break(do_fld_p, k, fl_cont)
             <=> do_fld_p = StopRow(ScanStart)
          /\ IsStart(ScanStart)
          /\ StopRow(ScanStart) = IF ScanStart = 0 THEN 13
                                  ELSE NextStart(ScanStart)
    /\ (pc = "ret" /\ res = 0 /\ stdout # <<>>)
       => do_fld_p = StopRow(ScanStart)

\* C23 witness: a Fixed PDO at object index 1 decoded as source, where the
\* row with ContinueGroup (fast_role_swap, sink only) is skipped, has been
\* scanned up to row 13 and shows its maximum_current
C23_Witness ==
    /\ PdoAloneDone
    /\ res = 0
    /\ IsFixedWord(a_pdo)
    /\ ind1
    /\ is_src
    /\ do_fld_p = 13
    /\ "fast_role_swap" \notin NameSet(out.lines)
    /\ "maximum_current" \in NameSet(out.lines)

RECURSIVE SumPow(_)
\* the number whose 1 bits are at the positions in s
SumPow(s) ==
    IF s = {} THEN 0
    ELSE LET x == CHOOSE y \in s : TRUE IN 2 ^ x + SumPow(s \ {x})

\* (w >> bit_offset) & (2^bit_width - 1) for row i: the bits of w inside
\* the field, counted from the low bit of the field
RawField(w, i) ==
    LET low == pdo_part_at(i).low_pdo_bit
    IN  SumPow({b - low : b \in {x \in w : x >= low /\ x < low + Width(i)}})

\* the line of row i for word w: name, and the raw value as a number or,
\* scaled by mult in 16 bits, as hundredths
FieldLine(w, i) ==
    LET d == pdo_part_at(i)
    IN  [name |-> pdo_str_at(d.nam_str_off),
         val |-> IF d.mult = 0 THEN to_string(RawField(w, i))
                 ELSE fmt_centi((RawField(w, i) * d.mult) % U16)]

\* row i is unflagged or flagged for the role
RoleRow(i, src) ==
    LET nbt == pdo_part_at(i).num_bits_typ
    IN  IF src THEN ~Tst(nbt, P_IT_FL_SINK) ELSE ~Tst(nbt, P_IT_FL_SRC)

\* the rows first .. last that are for the role, in table order
RoleRows(first, last, src) ==
    LET Keep(i) == RoleRow(i, src)
    IN  SelectSeq([n \in 1 .. (last - first + 1) |-> first + n - 1], Keep)

\* C24: the fields pdo2str gives are, in table order and once each, the rows
\* from the start of the selected block up to the row before the stop row
\* that are unflagged or flagged for the role of the decode, and each value
\* is that of the bits of the word inside the row's field.
C24_RoleFilterAndExtract ==
    (PdoAloneDone /\ res = 0)
    => LET rows == RoleRows(PdoStart, StopRow(PdoStart) - 1, is_src)
       IN  /\ Len(out.lines) = Len(rows)
           /\ \A n \in 1 .. Len(rows) :
                 out.lines[n] = FieldLine(a_pdo, rows[n])

\* C24 witness: a Fixed PDO at object index 1 decoded as sink shows the
\* eight rows for a sink, higher_capability second and operational_current last
C24_Witness ==
    /\ PdoAloneDone
    /\ res = 0
    /\ IsFixedWord(a_pdo)
    /\ ind1
    /\ ~is_src
    /\ a_pdo # {}
    /\ NameSeq(out.lines)
       = <<"dual_role_power", "higher_capability", "unconstrained_power",
           "usb_communication_capable", "dual_role_data", "fast_role_swap",
           "voltage", "operational_current">>

\* C25: in every state of a decode the index into pdo_part_map is within
\* 0..7, the cursor into pdo_part_a within 0..66 and the name index within
\* pdo_str; the scan has made at most 13 passes and given at most 10 fields,
\* the passes left before its stop row never grow beyond 13 less the passes
\* made, and at the stop row the loop is left.
C25_BoundedTraversal ==
    pc \in {"pdo2str", "rdo2str", "ret"}
    => /\ do_fld_p \in 0 .. 66
       /\ pdo_part_at(do_fld_p).nam_str_off \in 0 .. (Len(pdo_str) - 1)
       /\ k <= 13
       /\ Len(out.lines) <= 10
       /\ Len(out.lines) <= k
       /\ pc = "pdo2str"
          => /\ pdo2str_map_ind(a_pdo, ind1) \in 0 .. (Len(pdo_part_map) - 1)
             /\ \E i \in 0 .. (Len(pdo_part_map) - 1) :
                   pdo2str_start(a_pdo, ind1) = pdo_part_map_at(i)
       /\ pc = "rdo2str"
          => \E i \in 0 .. (Len(rdo_part_map) - 1) :
                rdo2str_switch(ref_pdo).ind = rdo_part_map_at(i)
       /\ pc \in {"pdo2str", "rdo2str"}
          => /\ k + (StopRow(ScanStart) - do_fld_p) <= 13
             /\ StopRow(ScanStart) - do_fld_p >= 0
             /\ StopRow(ScanStart) = do_fld_p
                => scan_break(do_fld_p, k, fl_cont)

\* C25 witness: a Fixed PDO at object index 1 decoded as source has ended at
\* row 13 with 10 fields
C25_Witness ==
    /\ PdoAloneDone
    /\ res = 0
    /\ is_src
    /\ do_fld_p = 13
    /\ Len(out.lines) = 10

\* the six variants of a PDO directory
Variants == pdo_e \ {"pdo_null"}

\* the heading word and the block start pdo2str has for a variant
KindOf(e) ==
    CASE e = "pdo_fixed" -> "Fixed"
      [] e = "pdo_battery" -> "Battery"
      [] e = "pdo_variable" -> "Variable"
      [] e = "apdo_pps" -> "Programmable power"
      [] OTHER -> "Adjustable voltage"

BlockOf(e, i1) ==
    CASE e = "pdo_fixed" -> IF i1 THEN 0 ELSE 9
      [] e = "pdo_battery" -> 13
      [] e = "pdo_variable" -> 17
      [] e = "apdo_pps" -> 21
      [] OTHER -> 26

\* C26: the word build_raw_pdo makes for a variant from a non-empty
\* attribute map is decoded by pdo2str under the heading and in the block of
\* that variant.
C26_SameVariant ==
    (/\ pc = "pdo2str"
     /\ k = 0
     /\ ~ec
     /\ elem.pdo_el_ \in Variants
     /\ DOMAIN elem.ascii_pdo_m_ # {})
    => /\ a_pdo = elem.raw_pdo_
       /\ out.head[1] = KindOf(elem.pdo_el_)
       /\ do_fld_p = BlockOf(elem.pdo_el_, ind1)

\* C26 for the variants other than SPR AVS
C26_SameVariantButSprAvs ==
    elem.pdo_el_ # "apdo_spr_avs" => C26_SameVariant

\* the bits of the word that belong to attribute a of variant e for the
\* role and object index: empty when build_raw_pdo does not read a
AttrBits(e, src, ind, a) ==
    CASE e = "pdo_fixed" ->
            (CASE a = (IF src THEN "maximum_current"
                       ELSE "operational_current") -> 0 .. 9
               [] a = "voltage" -> 10 .. 19
               [] ind = 1 /\ src
                  /\ a = "unchunked_extended_messages_supported" -> {24}
               [] ind = 1 /\ ~src /\ a = "fast_role_swap_current" -> 23 .. 24
               [] ind = 1 /\ a = "dual_role_data" -> {25}
               [] ind = 1 /\ a = "usb_communication_capable" -> {26}
               [] ind = 1 /\ a = "unconstrained_power" -> {27}
               [] ind = 1 /\ a = (IF src THEN "usb_suspend_supported"
                                  ELSE "higher_capability") -> {28}
               [] ind = 1 /\ a = "dual_role_power" -> {29}
               [] OTHER -> {})
      [] e = "pdo_battery" ->
            (CASE a = (IF src THEN "maximum_allowable_power"
                       ELSE "operational_power") -> 0 .. 9
               [] a = "minimum_voltage" -> 10 .. 19
               [] a = "maximum_voltage" -> 20 .. 29
               [] OTHER -> {})
      [] e = "pdo_variable" ->
            (CASE a = (IF src THEN "maximum_current"
                       ELSE "operational_current") -> 0 .. 9
               [] a = "minimum_voltage" -> 10 .. 19
               [] a = "maximum_voltage" -> 20 .. 29
               [] OTHER -> {})
      [] e = "apdo_pps" ->
            (CASE a = "maximum_current" -> 0 .. 6
               [] a = "minimum_voltage" -> 8 .. 15
               [] a = "maximum_voltage" -> 17 .. 24
               [] src /\ a = "pps_power_limited" -> {27}
               [] OTHER -> {})
      [] e = "apdo_epr_avs" ->
            (CASE a = "pdp" -> 0 .. 7
               [] a = "minimum_voltage" -> 8 .. 15
               [] a = "maximum_voltage" -> 17 .. 25
               [] a = "peak_current" -> 26 .. 27
               [] OTHER -> {})
      [] OTHER -> {}

\* the bits that tell the variant: 31-30, and 29-28 of an augmented PDO
SelectorBits(e) ==
    IF e \in {"apdo_pps", "apdo_spr_avs", "apdo_epr_avs"} THEN 28 .. 31
    ELSE 30 .. 31

\* the bits in which two words differ
DiffBits(x, y) == (x \ y) \cup (y \ x)

\* C27: in the word build_raw_pdo makes, an attribute value, in range or
\* not, reaches only the bits of its own field: the word differs from the
\* word built with that attribute at 0 inside the field only, never in the
\* selector bits or in another field; and the fields of a variant and role
\* are disjoint from each other and from the selector bits.
C27_FieldIsolation ==
    (Built /\ elem.pdo_el_ \in Variants /\ DOMAIN elem.ascii_pdo_m_ # {})
    => LET e == elem.pdo_el_
           src == elem.is_source_caps_
           ind == elem.pdo_ind_
           m == elem.ascii_pdo_m_
       IN  /\ \A a \in DOMAIN m :
                 DiffBits(elem.raw_pdo_,
                          build_raw_pdo(e, src, ind, FALSE,
                                        WithText(m, a, <<"0">>)))
                 \subseteq AttrBits(e, src, ind, a)
           /\ \A a \in EncAttrNames :
                 /\ AttrBits(e, src, ind, a) \cap SelectorBits(e) = {}
                 /\ \A b \in EncAttrNames \ {a} :
                       AttrBits(e, src, ind, a) \cap AttrBits(e, src, ind, b)
                       = {}

\* C27 witness: a Fixed PDO built from a voltage of 51200 mV, 1024 steps,
\* has the voltage field 0 and the current field of 3000 mA
C27_Witness ==
    /\ Built
    /\ elem.pdo_el_ = "pdo_fixed"
    /\ elem.is_source_caps_
    /\ "voltage" \in DOMAIN elem.ascii_pdo_m_
    /\ elem.ascii_pdo_m_["voltage"] = mV(51200)
    /\ Field(elem.raw_pdo_, 10, 10) = 0
    /\ Field(elem.raw_pdo_, 0, 10) = 300
    /\ Field(elem.raw_pdo_, 20, 12) = 0

\* the references whose RDO has no giveback flag
AugmentedRefs == {"apdo_pps", "apdo_spr_avs", "apdo_epr_avs"}

\* C28: an RDO decoded for a PPS or AVS reference gives the same eight field
\* names in the same order whatever the word, giveback_flag is not among
\* them, and the word with bit 27 inverted decodes to the same output.
C28_NoGivebackBranch ==
    (RdoDecoded /\ ref_pdo \in AugmentedRefs)
    => /\ NameSeq(out.lines)
          = <<"object_position", "capability_mismatch",
              "usb_communication_capable", "no_usb_suspend",
              "unchunked_message_supported", "epr_mode_supported",
              "output_voltage", "operating_current">>
       /\ "giveback_flag" \notin NameSet(out.lines)
       /\ rdo2str(Flip27(a_rdo), ref_pdo) = out
       /\ stdout = <<out>>

\* C28 witness: an RDO word with bit 27 set has been decoded for a PPS
\* reference
C28_Witness ==
    /\ RdoDecoded
    /\ ref_pdo = "apdo_pps"
    /\ 27 \in a_rdo
    /\ Len(out.lines) = 8

\* C29: a PDO word whose bits 31-30 are not 00 decodes, for either role, to
\* the same field names and values with the object-index-is-1 flag set as
\* with it clear; the scan also starts on the same descriptor.
C29_IndexOnlyForFixed ==
    (PdoAloneDone /\ ~IsFixedWord(a_pdo))
    => /\ out = pdo2str(a_pdo, ind1, is_src)
       /\ out.lines = pdo2str(a_pdo, ~ind1, is_src).lines
       /\ pdo2str_start(a_pdo, ind1) = pdo2str_start(a_pdo, ~ind1)

\* C29 witness: a Battery PDO has been decoded with the object-index-is-1
\* flag set and gave at least one field
C29_Witness ==
    /\ PdoAloneDone
    /\ Field(a_pdo, 30, 2) = 1
    /\ ind1
    /\ Len(out.lines) > 0

\* lsupd has built the word of a Fixed PDO directory
UpdFixedBuilt ==
    pc = "upd_built" /\ ~ec /\ elem.pdo_el_ = "pdo_fixed"

\* the word lsucpd builds for the directory elem was made from
LsucpdWord ==
    build_raw_pdo(elem.pdo_el_, elem.is_source_caps_, elem.pdo_ind_, ec,
                  elem.ascii_pdo_m_)

\* C30: for every attribute map, role and object index the word lsupd
\* builds for a Fixed PDO is the word lsucpd builds for it, with the voltage
\* in 50 mV steps at bits 19-10 and the current in 10 mA steps at bits 9-0.
C30_SamePacking ==
    UpdFixedBuilt
    => /\ elem.raw_pdo_ = LsucpdWord
       /\ Field(elem.raw_pdo_, 10, 10)
          = (get_millivolts("voltage", elem.ascii_pdo_m_) \div 50) % 1024
       /\ Field(elem.raw_pdo_, 0, 10)
          = (get_milliamps(IF elem.is_source_caps_ THEN "maximum_current"
                           ELSE "operational_current",
                           elem.ascii_pdo_m_) \div 10) % 1024

\* the two programs agree on a Fixed PDO whose directory holds every
\* attribute: violated as well, so the difference does not come from the
\* read of an absent attribute
C30_SamePackingAllPresent ==
    (UpdFixedBuilt
     /\ ~lsupd_reads_absent(elem.pdo_el_, elem.is_source_caps_,
                            elem.pdo_ind_, ec, elem.ascii_pdo_m_))
    => elem.raw_pdo_ = LsucpdWord

\* what the two programs do share: lsupd's word is lsucpd's with the two
\* ten-bit fields exchanged, and the bits 20 and above are the same
C30_FieldsExchanged ==
    (UpdFixedBuilt
     /\ ~lsupd_reads_absent(elem.pdo_el_, elem.is_source_caps_,
                            elem.pdo_ind_, ec, elem.ascii_pdo_m_))
    => /\ Field(elem.raw_pdo_, 0, 10) = Field(LsucpdWord, 10, 10)
       /\ Field(elem.raw_pdo_, 10, 10) = Field(LsucpdWord, 0, 10)
       /\ {b \in elem.raw_pdo_ : b >= 20} = {b \in LsucpdWord : b >= 20}

\* lsupd has built a Fixed PDO word from a directory with every attribute
C30_Reached ==
    /\ UpdFixedBuilt
    /\ DOMAIN elem.ascii_pdo_m_ # {}
    /\ ~lsupd_reads_absent(elem.pdo_el_, elem.is_source_caps_,
                           elem.pdo_ind_, ec, elem.ascii_pdo_m_)
    /\ elem.raw_pdo_ # {}

=============================================================================
